---- MODULE Spec2Model ----
(***************************************************************************)
(* Pose tracking and smoothing pipeline of the powersyncmobile app.        *)
(*                                                                         *)
(* Seven specifications:                                                   *)
(*   - TrackingManager (src/src/__tests__/performance.benchmark.test.ts),  *)
(*     the multi-detection tracker: specification Spec;                    *)
(*   - VisionOnDeviceScreen (src/src/app/(app)/vision-ondevice.tsx), the   *)
(*     frame processor worklet, the smoothing filter and the tracking and  *)
(*     form-analysis effects on the JS thread: specification SpecScreen;   *)
(*   - the same screen with one body in view, the camera flip included:    *)
(*     specification SpecCamera;                                           *)
(*   - smoothKeypoints called directly with any arguments, and the camera  *)
(*     flip that clears its state: specification SpecSmooth;               *)
(*   - analyzeLiftForm called on its own: specification SpecLift;          *)
(*   - the two similarity functions called on their own: SpecOKS;          *)
(*   - the login rate limiter (src/src/utils/security.ts): SpecLimit.      *)
(*                                                                         *)
(* Number representation (JavaScript doubles are modelled in fixed point): *)
(*   coordinates   integers (pixels)                                       *)
(*   scores        hundredths           (0.3  -> 30)                       *)
(*   sigma         thousandths          (0.026 -> 26)                      *)
(*   similarity    ten-thousandths      (0.15 -> 1500, 1.0 -> 10000)       *)
(*   area          [u |-> square pixels, e |-> millionths, inf |-> it is   *)
(*                 the double Infinity]                                    *)
(*   time          milliseconds                                            *)
(***************************************************************************)
EXTENDS Integers, Sequences, FiniteSets, TLC

VARIABLES
    \* TrackingManager
    trackedPersons,     \* Map<number, TrackedPerson>: id -> [id, lastSeen, keypoints]
    nextPersonId,       \* the ID counter
    frameHistory,       \* the entry pushed by the last procesFrame, <<>> before any
    \* history of the TrackingManager run (not program state)
    lastFrame,          \* input and outcome of the last procesFrame
    assigned,           \* IDs handed out since construction
    poseStamp,          \* id -> timestamp of the frame that stored the track's pose
    steady,             \* the single-body feed observed so far
    \* VisionOnDeviceScreen
    mounted,            \* the component is mounted
    isActive,           \* isFocused && appState === 'active' && shouldBeActive
    cameraPosition,     \* 'front' | 'back'
    frameCountRef,      \* frames seen by the frame processor
    lastKeypointsRef,   \* smoothing-filter state: keypoint slot -> [x, y, score, dx, dy]
    runOnJS,            \* calls of setSkeletonDataJS not yet run on the JS thread
    skeletonData,       \* React state: [isNull, keypoints]
    effectDue,          \* skeletonData changed and the tracking effect has not run yet
    effect,             \* position and locals of the running tracking effect
    trackedPersonsRef,  \* Map<number, TrackedPerson>
    nextPersonIdRef,    \* the ID counter
    now,                \* Date.now()
    \* history of the screen (not program state)
    lastWorklet,        \* the last frameProcessor call: its outcome, the raw and the
                        \* smoothed buffer, whether the filter was cleared since the
                        \* call before it (fresh) and since this one (cleared)
    feedback,           \* the form feedback shown on the screen (null or the last analysis)
    smoothCall,         \* arguments and result of the last direct smoothKeypoints call
    call,               \* the last call of a pure function: its arguments and result
    \* the login rate limiter (utils/security.ts)
    rateLimitMap,       \* identifier -> [count, firstAttempt, lastAttempt]
    dateNow,            \* Date.now(), in ms
    lastLimitCall       \* (history) the last call of the limiter and what it returned

tmVars == <<trackedPersons, nextPersonId, frameHistory, lastFrame, assigned,
            poseStamp, steady>>

filterVars == <<lastKeypointsRef, smoothCall>>

screenVars == <<mounted, isActive, cameraPosition, frameCountRef, runOnJS,
                skeletonData, effectDue, effect, trackedPersonsRef,
                nextPersonIdRef, now, lastWorklet, feedback>>

pureVars == <<call>>

limitVars == <<rateLimitMap, dateNow, lastLimitCall>>

vars == <<tmVars, filterVars, screenVars, pureVars, limitVars>>

----------------------------------------------------------------------------
(* Program constants *)

DETECTION_THRESHOLD == 30             \* 0.3
HIGH_CONFIDENCE == 70                 \* 0.7
CAMERA_FPS == 30
FRAME_SKIP_INTERVAL == 2
MIN_CUTOFF == 1500                    \* 0.15, in ten-thousandths
BETA == 70                            \* 0.007 per pixel, in ten-thousandths
DERIVATE_CUTOFF == 10000              \* 1.0, in ten-thousandths
CROP_KEYPOINT_SCORE_THRESHOLD == 20   \* 0.2
TORSO_EXPANSION_RATIO == 190          \* 1.9, in hundredths
BODY_EXPANSION_RATIO == 120           \* 1.2, in hundredths
OKS_KEYPOINT_THRESHOLD == 30

OKS_KEYPOINT_FALLOFF ==
    << 26, 25, 25, 35, 35, 79, 79, 72, 72, 62, 62, 107, 107, 87, 87, 89, 89 >>

OKS_MIN_KEYPOINTS == 4

TRACKING_MIN_SIMILARITY == 1500

TRACKING_MAX_AGE == 1000

TRACKING_MAX_PERSONS == 18

----------------------------------------------------------------------------
(* Bounds of the model *)

\* timestamps are multiples of TimeStep (half of MAX_AGE), up to MaxTick steps
TimeStep == TRACKING_MAX_AGE \div 2

MaxTick == 2

\* longest detection list made of arbitrary poses
MaxDets == 2

\* small frames allocate at most MaxIds ids (on top of a crowd's, if one came)
MaxIds == 2
MaxFrameCount == 2
MaxPosted == 1
MaxCalls == 3

\* a crowd is MAX_PERSONS bodies, or one more
CrowdSizes == { TRACKING_MAX_PERSONS, TRACKING_MAX_PERSONS + 1 }

TimeStamps == { k * TimeStep : k \in 0..MaxTick }

----------------------------------------------------------------------------
(* Math.exp on the fixed-point grid: ExpTable[n+1] = floor(10000 * exp(-n/16)) *)

ExpTable ==
    << 10000, 9394, 8824, 8290, 7788, 7316, 6872, 6456, 6065, 5697, 5352, 5028,
       4723, 4437, 4168, 3916, 3678, 3455, 3246, 3049, 2865, 2691, 2528, 2375,
       2231, 2096, 1969, 1849, 1737, 1632, 1533, 1440, 1353, 1271, 1194, 1121,
       1053, 990, 930, 873, 820, 771, 724, 680, 639, 600, 564, 529,
       497, 467, 439, 412, 387, 364, 342, 321, 301, 283, 266, 250,
       235, 220, 207, 194, 183, 172, 161, 151, 142, 134, 125, 118,
       111, 104, 98, 92, 86, 81, 76, 71, 67, 63, 59, 55,
       52, 49, 46, 43, 40, 38, 36, 33, 31, 29, 28, 26,
       24, 23, 21, 20, 19, 18, 17, 16, 15, 14, 13, 12,
       11, 10, 10, 9, 9, 8, 8, 7, 7, 6, 6, 5,
       5, 5, 4, 4, 4, 4, 3, 3, 3, 3, 2, 2,
       2, 2, 2, 2, 2, 1, 1, 1, 1, 1, 1, 1,
       1, 1, 1, 1 >>

\* exp(-n/16) in ten-thousandths
ExpNeg16(n) == IF n < Len(ExpTable) THEN ExpTable[n + 1] ELSE 0

Abs(x) == IF x < 0 THEN -x ELSE x

\* a coordinate so large that its square is not a finite double (1e200, say);
\* every other coordinate is far below it
Huge == 100000

\* a difference of a Huge coordinate and an ordinary one: 1e200 - 100 is 1e200
IsHuge(d) == Abs(d) * 2 >= Huge

\* what stands for the double Infinity in a squared distance
Infinity == 2000000000

\* what stands for the double NaN in a similarity: like NaN it exceeds no
\* threshold it is compared with
NaN == -1

Min2(a, b) == IF a < b THEN a ELSE b

Max2(a, b) == IF a > b THEN a ELSE b

SetMin(S) == CHOOSE m \in S : \A x \in S : m <= x

SetMax(S) == CHOOSE m \in S : \A x \in S : m >= x

----------------------------------------------------------------------------
(* Object Keypoint Similarity, JS-thread pair *)

\* indices of the keypoints that clear the threshold (score >= threshold)
ValidJS(keypoints) ==
    { i \in 1..Len(keypoints) : keypoints[i].score >= OKS_KEYPOINT_THRESHOLD }

computeKeypointAreaJS(keypoints) ==
    LET V == ValidJS(keypoints) IN
    IF V = {} THEN [u |-> 1, e |-> 0, inf |-> FALSE]
    ELSE LET width  == SetMax({ keypoints[i].x : i \in V }) - SetMin({ keypoints[i].x : i \in V })
             height == SetMax({ keypoints[i].y : i \in V }) - SetMin({ keypoints[i].y : i \in V })
         IN  IF IsHuge(width) /\ IsHuge(height)
             THEN [u |-> 0, e |-> 0, inf |-> TRUE]
             ELSE [u |-> width * height, e |-> 0, inf |-> FALSE]

\* OKS_KEYPOINT_FALLOFF[i] || 0.089  (i is 1-based here)
Sigma(i) == IF i <= Len(OKS_KEYPOINT_FALLOFF) THEN OKS_KEYPOINT_FALLOFF[i] ELSE 89

\* dx * dx + dy * dy, which is Infinity once a difference is huge
DSquared(dx, dy) ==
    IF IsHuge(dx) \/ IsHuge(dy) THEN Infinity ELSE dx * dx + dy * dy

\* Math.exp(-dSquared / (2 * area * x * x)) with x = 2 * sigma.
\* area is never 0 (1e-6 was added).  Infinity / Infinity is NaN and so is its
\* exponential; a finite dSquared over an infinite area is 0.  With integer
\* pixels and an area of the order of 1e-6 the exponent exceeds 745 and the
\* double result is exactly 0.  Otherwise the exponent is
\* d2 * 10^6 / (8 * sigma^2 * u), taken in 1/16ths.
GaussianKernel(dSquared, sigma, area) ==
    IF dSquared = Infinity THEN (IF area.inf THEN NaN ELSE 0)
    ELSE IF dSquared = 0 \/ area.inf THEN 10000
    ELSE IF area.u = 0 THEN 0
    ELSE ExpNeg16((dSquared * (2000000 \div (sigma * sigma))) \div area.u)

\* the loop's test with && for ||: one confident side is enough
BothValidEither(kp1, kp2) ==
    { i \in 1..Len(kp1) : ~ (kp1[i].score < OKS_KEYPOINT_THRESHOLD
                             /\ kp2[i].score < OKS_KEYPOINT_THRESHOLD) }

\* indices counted by the similarity loop
BothValid(kp1, kp2) ==
    { i \in 1..Len(kp1) : ~ (kp1[i].score < OKS_KEYPOINT_THRESHOLD
                             \/ kp2[i].score < OKS_KEYPOINT_THRESHOLD) }

\* the similarity of keypoint i of the two poses
KernelAt(kp1, kp2, area, i) ==
    GaussianKernel(DSquared(kp1[i].x - kp2[i].x, kp1[i].y - kp2[i].y), Sigma(i), area)

RECURSIVE OksSum(_, _, _, _)
OksSum(kp1, kp2, area, i) ==
    IF i > Len(kp1) THEN 0
    ELSE (IF i \in BothValid(kp1, kp2) THEN KernelAt(kp1, kp2, area, i) ELSE 0)
         + OksSum(kp1, kp2, area, i + 1)

\* the loop and the return of both similarity functions, whose text is the
\* same, given the area of the second pose; a NaN term makes the sum NaN
SimilarityOver(person1Keypoints, person2Keypoints, a0) ==
    LET area == [u |-> a0.u, e |-> a0.e + 1, inf |-> a0.inf]
        valid == BothValid(person1Keypoints, person2Keypoints)
        validKeypointCount == Cardinality(valid)
    IN  IF validKeypointCount < OKS_MIN_KEYPOINTS THEN 0
        ELSE IF \E i \in valid : KernelAt(person1Keypoints, person2Keypoints, area, i) = NaN
             THEN NaN
             ELSE OksSum(person1Keypoints, person2Keypoints, area, 1) \div validKeypointCount

\* the length test with > for !==: a shorter first pose passes
LengthMismatchLonger(person1Keypoints, person2Keypoints) ==
    Len(person1Keypoints) > Len(person2Keypoints)

LengthMismatch(person1Keypoints, person2Keypoints) ==
    Len(person1Keypoints) # Len(person2Keypoints)

computeOKSSimilarityJS(person1Keypoints, person2Keypoints) ==
    IF LengthMismatch(person1Keypoints, person2Keypoints) THEN 0
    ELSE SimilarityOver(person1Keypoints, person2Keypoints,
                        computeKeypointAreaJS(person2Keypoints))

----------------------------------------------------------------------------
(* Object Keypoint Similarity, worklet pair *)

\* indices of the keypoints that clear the threshold (score > threshold)
Valid(keypoints) ==
    { i \in 1..Len(keypoints) : keypoints[i].score > OKS_KEYPOINT_THRESHOLD }

\* the area in units (u) and millionths (e): a side of 0 counts as 1e-6
computeKeypointArea(keypoints) ==
    LET V == Valid(keypoints) IN
    IF V = {} THEN [u |-> 0, e |-> 1, inf |-> FALSE]
    ELSE LET width  == SetMax({ keypoints[i].x : i \in V }) - SetMin({ keypoints[i].x : i \in V })
             height == SetMax({ keypoints[i].y : i \in V }) - SetMin({ keypoints[i].y : i \in V })
         IN  IF IsHuge(width) /\ IsHuge(height)
             THEN [u |-> 0, e |-> 0, inf |-> TRUE]
             ELSE [u |-> width * height,
                   e |-> IF width = 0 THEN height ELSE IF height = 0 THEN width ELSE 0,
                   inf |-> FALSE]

computeOKSSimilarity(person1Keypoints, person2Keypoints) ==
    IF LengthMismatch(person1Keypoints, person2Keypoints) THEN 0
    ELSE SimilarityOver(person1Keypoints, person2Keypoints,
                        computeKeypointArea(person2Keypoints))

----------------------------------------------------------------------------
(* Poses fed to the tracker *)

\* createStationaryPerson(x, y) with a fixed score
createStationaryPerson(x, y, score) ==
    [ i \in 1..17 |-> [x |-> x + (i - 1) * 5, y |-> y + (i - 1) * 5, score |-> score] ]

\* a pose of which only the first n keypoints are confident
WeakPose(x, y, n) ==
    [ i \in 1..17 |-> [x |-> x + (i - 1) * 5, y |-> y + (i - 1) * 5,
                       score |-> IF i <= n THEN 80 ELSE 10] ]

PoseA == createStationaryPerson(100, 100, 80)

PoseJ == createStationaryPerson(102, 102, 80)

PoseB == createStationaryPerson(300, 300, 80)

PoseW == WeakPose(200, 100, 3)

\* A keypoint array is held in the state by the name of its pose.
PoseSet == { "A", "J", "B" }

\* the two bodies standing far apart
Standing == { "A", "B" }

KeypointsOf(name) ==
    CASE name = "A" -> PoseA
      [] name = "J" -> PoseJ
      [] name = "B" -> PoseB
      [] name = "W" -> PoseW

Confident(name) == Cardinality(ValidJS(KeypointsOf(name)))

RECURSIVE Tabulate(_, _)
\* the explicit table of computeOKSSimilarityJS on a set of pairs of pose names
Tabulate(pairs, acc) ==
    IF pairs = {} THEN acc
    ELSE LET pq == CHOOSE x \in pairs : TRUE
         IN  Tabulate(pairs \ {pq},
                      (pq :> computeOKSSimilarityJS(KeypointsOf(pq[1]), KeypointsOf(pq[2]))) @@ acc)

\* computeOKSSimilarityJS on the poses of PoseSet, evaluated once
SimTable == Tabulate(PoseSet \X PoseSet, << >>)

----------------------------------------------------------------------------
(* TrackingManager.procesFrame *)

\* Map iteration order: tracks are inserted with increasing ids (0, 1, ...) and a
\* key is never re-inserted, so insertion order is increasing id order.
InOrder(S, nid) ==
    LET IsIn(id) == id \in S
    IN  SelectSeq([ i \in 1..nid |-> i - 1 ], IsIn)

\* the registry taken whole, without the filter on lastSeen
ActiveTracksAll(tp, currentTime) == DOMAIN tp

\* ids of Array.from(trackedPersons.values()).filter(currentTime - lastSeen < MAX_AGE)
ActiveTracks(tp, currentTime) ==
    { id \in DOMAIN tp : (currentTime - tp[id].lastSeen) < TRACKING_MAX_AGE }

\* (mutant) the matched set is never consulted
SkippedNever(id, matched) == FALSE

\* `if (matched.has(track.id)) continue`
Skipped(id, matched) == id \in matched

\* the inner loop leaving at the first track above the threshold
BestTrackFirst(detectedKeypoints, tp, active, matched, i, bestTrackId, bestSimilarity) ==
    LET over == { j \in i..Len(active) :
                    /\ active[j] \notin matched
                    /\ SimTable[<<detectedKeypoints, tp[active[j]].keypoints>>] > bestSimilarity }
    IN  IF over = {} THEN bestTrackId ELSE active[SetMin(over)]

RECURSIVE BestTrack(_, _, _, _, _, _, _)
\* the inner loop over activeTracks: the best-scoring unmatched track whose
\* similarity exceeds bestSimilarity, -1 when there is none
BestTrack(detectedKeypoints, tp, active, matched, i, bestTrackId, bestSimilarity) ==
    IF i > Len(active) THEN bestTrackId
    ELSE IF Skipped(active[i], matched)
         THEN BestTrack(detectedKeypoints, tp, active, matched, i + 1, bestTrackId, bestSimilarity)
         ELSE LET similarity == SimTable[<<detectedKeypoints, tp[active[i]].keypoints>>]
              IN  IF similarity > bestSimilarity
                  THEN BestTrack(detectedKeypoints, tp, active, matched, i + 1, active[i], similarity)
                  ELSE BestTrack(detectedKeypoints, tp, active, matched, i + 1, bestTrackId, bestSimilarity)

\* (mutant) the pose is stored, lastSeen is left as it was
UpdateTrackKeepLastSeen(track, detectedKeypoints, currentTime) ==
    [track EXCEPT !.keypoints = detectedKeypoints]

\* (mutant) lastSeen is refreshed, the pose is left as it was
UpdateTrackKeepPose(track, detectedKeypoints, currentTime) ==
    [track EXCEPT !.lastSeen = currentTime]

\* track.keypoints = detectedKeypoints; track.lastSeen = currentTime
UpdateTrack(track, detectedKeypoints, currentTime) ==
    [track EXCEPT !.keypoints = detectedKeypoints, !.lastSeen = currentTime]

\* `else if (activeTracks.length < TRACKING_MAX_PERSONS)`
CanCreate(active) == Len(active) < TRACKING_MAX_PERSONS

\* (mutant) the counter is read but not incremented
AfterAllocStuck(nid) == nid

\* the counter incremented twice for one allocation
AfterAllocTwice(nid) == nid + 2

\* const newId = this.nextPersonId++ : the counter after the allocation
AfterAlloc(nid) == nid + 1

\* the two branches after the inner loop, for the best track found.
\* st = [tp, nid, matched, outcome, stamp]
Resolve(st, detectedKeypoints, bestTrackId, active, currentTime) ==
    IF bestTrackId >= 0
    THEN IF bestTrackId \in DOMAIN st.tp
         THEN LET old == st.tp[bestTrackId]
                  new == UpdateTrack(old, detectedKeypoints, currentTime)
              IN  [st EXCEPT
                     !.tp = [st.tp EXCEPT ![bestTrackId] = new],
                     !.matched = st.matched \cup {bestTrackId},
                     \* (history) the frame whose detection the track now holds
                     !.stamp = [st.stamp EXCEPT ![bestTrackId] =
                                  IF new.keypoints = detectedKeypoints
                                  THEN currentTime ELSE st.stamp[bestTrackId]],
                     !.outcome = Append(st.outcome, [kind |-> "matched", id |-> bestTrackId])]
         ELSE [st EXCEPT !.outcome = Append(st.outcome, [kind |-> "dropped", id |-> -1])]
    ELSE IF CanCreate(active)
    THEN LET newId == st.nid
             track == [id |-> newId, lastSeen |-> currentTime,
                       keypoints |-> detectedKeypoints]
         IN  [st EXCEPT
                 !.nid = AfterAlloc(st.nid),
                 !.tp = (newId :> track) @@ st.tp,
                 !.stamp = (newId :> currentTime) @@ st.stamp,
                 !.outcome = Append(st.outcome, [kind |-> "created", id |-> newId])]
    ELSE [st EXCEPT !.outcome = Append(st.outcome, [kind |-> "dropped", id |-> -1])]

\* (mutant) the candidates are read from the registry as it is now, the tracks
\* created earlier in the frame included
MatchOneLive(st, detectedKeypoints, active, currentTime) ==
    CHOOSE r \in { Resolve(st, detectedKeypoints, b, active, currentTime) :
                     b \in { BestTrack(detectedKeypoints, st.tp,
                                       InOrder(ActiveTracks(st.tp, currentTime), st.nid),
                                       st.matched, 1, -1, TRACKING_MIN_SIMILARITY) } } : TRUE

\* the body of the loop over the detections, for one detection
MatchOne(st, detectedKeypoints, active, currentTime) ==
    CHOOSE r \in { Resolve(st, detectedKeypoints, b, active, currentTime) :
                     b \in { BestTrack(detectedKeypoints, st.tp, active, st.matched, 1, -1,
                                       TRACKING_MIN_SIMILARITY) } } : TRUE

RECURSIVE MatchAll(_, _, _, _, _)
\* for (const detectedKeypoints of currentKeypoints)
MatchAll(st, currentKeypoints, k, active, currentTime) ==
    IF k > Len(currentKeypoints) THEN st
    ELSE \* the state after detection k is computed once, then handed on
         CHOOSE r \in { MatchAll(s, currentKeypoints, k + 1, active, currentTime) :
                          s \in { MatchOne(st, currentKeypoints[k], active, currentTime) } } : TRUE

\* (mutant) `>` for `>=`
StaleStrict(tp, currentTime) ==
    { id \in DOMAIN tp : (currentTime - tp[id].lastSeen) > TRACKING_MAX_AGE }

\* the tracks the age-out loop deletes
Stale(tp, currentTime) ==
    { id \in DOMAIN tp : (currentTime - tp[id].lastSeen) >= TRACKING_MAX_AGE }

\* a sweep that deletes every track the frame did not touch
AgeOutUnseen(tp, currentTime) ==
    [ id \in { i \in DOMAIN tp : tp[i].lastSeen = currentTime } |-> tp[id] ]

\* for (const [id, track] of this.trackedPersons.entries()) ... delete(id)
AgeOut(tp, currentTime) ==
    [ id \in DOMAIN tp \ Stale(tp, currentTime) |-> tp[id] ]

\* the single-body feed after a frame (history): "ok" while every frame since
\* construction held the same single pose, each less than MAX_AGE after the last
SteadyAfter(s, currentKeypoints, timestamp) ==
    IF Len(currentKeypoints) = 1 /\ s.st = "none"
    THEN [st |-> "ok", pose |-> currentKeypoints[1], first |-> timestamp, last |-> timestamp]
    ELSE IF /\ Len(currentKeypoints) = 1
            /\ s.st = "ok"
            /\ s.pose = currentKeypoints[1]
            /\ timestamp - s.last >= 0
            /\ timestamp - s.last < TRACKING_MAX_AGE
    THEN [s EXCEPT !.last = timestamp]
    ELSE [st |-> "broken", pose |-> "", first |-> 0, last |-> 0]

\* the bound on the ID counter after a frame of n detections
IdCap(nid, n) ==
    IF n >= TRACKING_MAX_PERSONS \/ nid >= TRACKING_MAX_PERSONS
    THEN TRACKING_MAX_PERSONS + 1 + MaxIds
    ELSE MaxIds

\* what the frame leaves behind: the fold over the detections, then the age-out
FrameResult(tp, nid, stamp, currentKeypoints, currentTime) ==
    LET active == InOrder(ActiveTracks(tp, currentTime), nid)
        st0 == [tp |-> tp, nid |-> nid, matched |-> {}, outcome |-> << >>, stamp |-> stamp]
    IN  { [st |-> st, swept |-> Stale(st.tp, currentTime), kept |-> AgeOut(st.tp, currentTime)] :
            st \in { MatchAll(st0, currentKeypoints, 1, active, currentTime) } }

procesFrame(currentKeypoints, timestamp) ==
    \E r \in FrameResult(trackedPersons, nextPersonId, poseStamp, currentKeypoints, timestamp) :
        /\ r.st.nid <= IdCap(nextPersonId, Len(currentKeypoints))
        /\ trackedPersons' = r.kept
        /\ nextPersonId' = r.st.nid
        /\ frameHistory' = << [timestamp |-> timestamp,
                               peopleCount |-> Cardinality(DOMAIN r.kept)] >>
        /\ lastFrame' = [timestamp |-> timestamp, dets |-> currentKeypoints,
                         outcome |-> r.st.outcome, swept |-> r.swept,
                         \* (history) the poses the swept tracks held
                         gone |-> [ id \in r.swept |-> r.st.tp[id].keypoints ]]
        /\ assigned' = assigned \cup { r.st.outcome[k].id :
                           k \in { j \in 1..Len(r.st.outcome) : r.st.outcome[j].kind = "created" } }
        /\ poseStamp' = [ id \in DOMAIN r.kept |-> r.st.stamp[id] ]
        /\ steady' = SteadyAfter(steady, currentKeypoints, timestamp)

\* TrackingManager.reset: back to the state after construction
reset ==
    /\ trackedPersons' = << >>
    /\ nextPersonId' = 0
    /\ frameHistory' = << >>
    /\ lastFrame' = [timestamp |-> -1, dets |-> << >>, outcome |-> << >>, swept |-> {},
                     gone |-> << >>]
    /\ assigned' = {}
    /\ poseStamp' = << >>
    /\ steady' = [st |-> "none", pose |-> "", first |-> 0, last |-> 0]

----------------------------------------------------------------------------
(* Inputs *)

RECURSIVE SeqsUpTo(_, _)
SeqsUpTo(S, n) ==
    IF n = 0 THEN { << >> }
    ELSE LET shorter == SeqsUpTo(S, n - 1)
         IN  shorter \cup { Append(q, x) : q \in { r \in shorter : Len(r) = n - 1 }, x \in S }

\* n copies of one pose
Burst(pose, n) == [ i \in 1..n |-> pose ]

\* short detection lists of the standing poses, and the body of pose A seen
\* alone after it moved by 2 pixels
DetLists == SeqsUpTo(Standing, MaxDets) \cup { << "J" >> }

\* crowded frames: MAX_PERSONS or more copies of one pose
Bursts == { Burst(p, n) : p \in Standing, n \in CrowdSizes }

----------------------------------------------------------------------------
(* Specification of the TrackingManager *)

InitTM ==
    /\ trackedPersons = << >>
    /\ nextPersonId = 0
    /\ frameHistory = << >>
    /\ lastFrame = [timestamp |-> -1, dets |-> << >>, outcome |-> << >>, swept |-> {},
                    gone |-> << >>]
    /\ assigned = {}
    /\ poseStamp = << >>
    /\ steady = [st |-> "none", pose |-> "", first |-> 0, last |-> 0]

\* frames arrive with non-decreasing timestamps
Frame ==
    \E dets \in DetLists, t \in TimeStamps :
        /\ t >= lastFrame.timestamp
        /\ procesFrame(dets, t)
        /\ UNCHANGED <<filterVars, screenVars, pureVars, limitVars>>

\* a crowd is the first thing a fresh tracker sees
CrowdFrame ==
    \E dets \in Bursts, t \in TimeStamps :
        /\ t >= lastFrame.timestamp
        /\ nextPersonId = 0
        /\ procesFrame(dets, t)
        /\ UNCHANGED <<filterVars, screenVars, pureVars, limitVars>>

\* the tracker is reset: a new lifetime starts
Reset ==
    /\ reset
    /\ UNCHANGED <<filterVars, screenVars, pureVars, limitVars>>

----------------------------------------------------------------------------
(* Smoothing filter (vision-ondevice.tsx)                                   *)
(*   raw buffers   flat sequences [y, x, score, ...]; y and x normalized,   *)
(*                 in thousandths, score in hundredths                      *)
(*   filter state  x, y, dx, dy in thousandths of a pixel                   *)
(*   alpha         thousandths                                              *)
(*   a number      [t |-> "number", v |-> n]; any other typeof has another t *)

Clamp(x, lo, hi) == Max2(lo, Min2(x, hi))

\* floor of the square root, by bisection on lo..hi
RECURSIVE SqrtIn(_, _, _)
SqrtIn(n, lo, hi) ==
    IF lo >= hi THEN lo
    ELSE LET mid == (lo + hi + 1) \div 2
         IN  IF mid * mid <= n THEN SqrtIn(n, mid, hi) ELSE SqrtIn(n, lo, mid - 1)

\* Math.sqrt, to the integer below; arguments stay under 46340^2
Sqrt(n) == SqrtIn(n, 0, 46340)

\* 1 / (1 + tau / te), tau = 1 / (2 pi cutoff), te = 1 / fps, which is
\* 2 pi cutoff / (2 pi cutoff + fps); 2 pi is taken as 6.283
smoothingFactor(cutoff, fps) ==
    LET twoPiCutoff == 6283 * cutoff              \* in 1e-7
        sum == twoPiCutoff + fps * 10000000
    IN  twoPiCutoff \div (sum \div 1000)

oneEuroFilter(value, lastValue, lastDValue, alpha, dAlpha) ==
    LET dValue == value - lastValue
        smoothedDValue == (dAlpha * dValue + (1000 - dAlpha) * lastDValue) \div 1000
        filtered == (alpha * value + (1000 - alpha) * lastValue) \div 1000
    IN  [filtered |-> filtered, dValue |-> smoothedDValue]

IsNumber(n) == n.t = "number"

\* (mutant) no buffer is too short
TooShortNever(keypoints) == FALSE

\* !keypoints || keypoints.length < 51
TooShort(keypoints) == Len(keypoints) < 51

\* screenWidth <= 0 || screenHeight <= 0
NonPositive(screenWidth, screenHeight) == screenWidth.v <= 0 \/ screenHeight.v <= 0

\* new Float32Array(51)
ZeroBuffer == [ k \in 1..51 |-> 0 ]

\* the keypoint slots the loop does not skip: baseIndex + 2 < keypoints.length
Slots(keypoints) == { i \in 0..16 : i * 3 + 2 < Len(keypoints) }

\* (mutant) no sample is in the dead zone
InDeadZoneNever(deltaX, deltaY, MOVEMENT_THRESHOLD) == FALSE

\* deltaX < MOVEMENT_THRESHOLD && deltaY < MOVEMENT_THRESHOLD
InDeadZone(deltaX, deltaY, MOVEMENT_THRESHOLD) ==
    deltaX < MOVEMENT_THRESHOLD /\ deltaY < MOVEMENT_THRESHOLD

\* (mutant) a slot with state is filtered whatever the raw score
FilteredAnyScore(lastKeypoints, i, rawScore) == i \in DOMAIN lastKeypoints

\* last && rawScore > DETECTION_THRESHOLD
Filtered(lastKeypoints, i, rawScore) ==
    i \in DOMAIN lastKeypoints /\ rawScore > DETECTION_THRESHOLD

\* one pass of the loop body for slot i: the entry written to lastKeypoints[key]
SmoothSlot(keypoints, lastKeypoints, W, H, i) ==
    LET rawX == keypoints[i * 3 + 2] * W
        rawY == keypoints[i * 3 + 1] * H
        rawScore == keypoints[i * 3 + 3]
        MOVEMENT_THRESHOLD == W * 10          \* screenWidth * 0.01
    IN  IF Filtered(lastKeypoints, i, rawScore)
        THEN LET last == lastKeypoints[i]
                 deltaX == Abs(rawX - last.x)
                 deltaY == Abs(rawY - last.y)
             IN  IF InDeadZone(deltaX, deltaY, MOVEMENT_THRESHOLD)
                 THEN last
                 ELSE LET vx == (rawX - last.x) \div 100      \* tenths of a pixel
                          vy == (rawY - last.y) \div 100
                          speed == Sqrt(vx * vx + vy * vy)
                          adaptiveCutoff == MIN_CUTOFF + (BETA * speed) \div 10
                          fps == CAMERA_FPS \div FRAME_SKIP_INTERVAL
                          alpha == smoothingFactor(adaptiveCutoff, fps)
                          dAlpha == smoothingFactor(DERIVATE_CUTOFF, fps)
                          resultX == oneEuroFilter(rawX, last.x, last.dx, alpha, dAlpha)
                          resultY == oneEuroFilter(rawY, last.y, last.dy, alpha, dAlpha)
                      IN  [x |-> resultX.filtered, y |-> resultY.filtered,
                           score |-> (70 * rawScore + 30 * last.score) \div 100,
                           dx |-> resultX.dValue, dy |-> resultY.dValue]
        ELSE [x |-> rawX, y |-> rawY, score |-> rawScore, dx |-> 0, dy |-> 0]

\* the filter state after the loop
SmoothedState(keypoints, lastKeypoints, W, H) ==
    [ i \in (DOMAIN lastKeypoints) \cup Slots(keypoints) |->
        IF i \in Slots(keypoints)
        THEN SmoothSlot(keypoints, lastKeypoints, W, H, i)
        ELSE lastKeypoints[i] ]

\* smoothedKeypoints: the state converted back to normalized coordinates
SmoothedBuffer(keypoints, state, W, H) ==
    [ k \in 1..Len(keypoints) |->
        LET i == (k - 1) \div 3
        IN  IF i \notin Slots(keypoints) THEN 0
            ELSE CASE (k - 1) % 3 = 0 -> state[i].y \div H
                   [] (k - 1) % 3 = 1 -> state[i].x \div W
                   [] OTHER           -> state[i].score ]

\* smoothKeypoints: the returned buffer and the filter state it leaves
smoothKeypoints(keypoints, lastKeypoints, screenWidth, screenHeight) ==
    IF TooShort(keypoints)
    THEN [result |-> ZeroBuffer, lastKeypoints |-> lastKeypoints]
    ELSE IF ~IsNumber(screenWidth) \/ ~IsNumber(screenHeight)
    THEN [result |-> keypoints, lastKeypoints |-> lastKeypoints]
    ELSE IF NonPositive(screenWidth, screenHeight)
    THEN [result |-> keypoints, lastKeypoints |-> lastKeypoints]
    ELSE CHOOSE r \in
           { [result |-> SmoothedBuffer(keypoints, state, screenWidth.v, screenHeight.v),
              lastKeypoints |-> state] :
               state \in { SmoothedState(keypoints, lastKeypoints,
                                         screenWidth.v, screenHeight.v) } } : TRUE

----------------------------------------------------------------------------
(* Crop region and screen transform (vision-ondevice.tsx)                   *)
(*   keypointsArray  sequence of [x, y, score], x and y in thousandths      *)
(*   frame and screen sizes in pixels; positions in thousandths of a pixel  *)

\* calculateBoundingBox
calculateBoundingBox(keypoints, minScoreThreshold) ==
    LET valid == { i \in 1..Len(keypoints) : keypoints[i].score >= minScoreThreshold }
    IN  IF valid = {}
        THEN [xMin |-> 0, xMax |-> 0, yMin |-> 0, yMax |-> 0, width |-> 0, height |-> 0]
        ELSE LET xs == { keypoints[i].x : i \in valid }
                 ys == { keypoints[i].y : i \in valid }
             IN  [xMin |-> SetMin(xs), xMax |-> SetMax(xs),
                  yMin |-> SetMin(ys), yMax |-> SetMax(ys),
                  width |-> SetMax(xs) - SetMin(xs), height |-> SetMax(ys) - SetMin(ys)]

\* getTorsoBBox: shoulders (5, 6) and hips (11, 12); isNull for `return null`
getTorsoBBox(keypoints) ==
    LET torso == { keypoints[6], keypoints[7], keypoints[12], keypoints[13] }
        shoulderScore == Min2(keypoints[6].score, keypoints[7].score)
        hipScore == Min2(keypoints[12].score, keypoints[13].score)
    IN  IF shoulderScore < CROP_KEYPOINT_SCORE_THRESHOLD \/ hipScore < CROP_KEYPOINT_SCORE_THRESHOLD
        THEN [isNull |-> TRUE, xMin |-> 0, xMax |-> 0, yMin |-> 0, yMax |-> 0]
        ELSE [isNull |-> FALSE,
              xMin |-> SetMin({ k.x : k \in torso }), xMax |-> SetMax({ k.x : k \in torso }),
              yMin |-> SetMin({ k.y : k \in torso }), yMax |-> SetMax({ k.y : k \in torso })]

\* the box grown by ratio * max(width, height) / 2 on every side, kept in [0, 1]
Expanded(box, ratio) ==
    LET expansion == (ratio * Max2(box.xMax - box.xMin, box.yMax - box.yMin)) \div 200
    IN  [xMin |-> Max2(0, box.xMin - expansion), xMax |-> Min2(1000, box.xMax + expansion),
         yMin |-> Max2(0, box.yMin - expansion), yMax |-> Min2(1000, box.yMax + expansion)]

\* determineCropRegion
determineCropRegion(keypoints, frameWidth, frameHeight) ==
    LET torsoBBox == getTorsoBBox(keypoints)
        bbox == calculateBoundingBox(keypoints, CROP_KEYPOINT_SCORE_THRESHOLD)
    IN  IF torsoBBox.isNull /\ (bbox.width = 0 \/ bbox.height = 0)
        THEN [cropX |-> 0, cropY |-> 0, cropSize |-> 1000 * Max2(frameWidth, frameHeight)]
        ELSE LET cropRegion == IF ~torsoBBox.isNull
                               THEN Expanded(torsoBBox, TORSO_EXPANSION_RATIO)
                               ELSE Expanded(bbox, BODY_EXPANSION_RATIO)
                 width == cropRegion.xMax - cropRegion.xMin
                 height == cropRegion.yMax - cropRegion.yMin
             IN  [cropX |-> cropRegion.xMin, cropY |-> cropRegion.yMin,
                  cropSize |-> Max2(width, height) * Max2(frameWidth, frameHeight)]

\* the switch on the orientation: screenX, screenY and the transformed size
Oriented(orientation, frameX, frameY, frameWidth, frameHeight) ==
    CASE orientation = "portraitUpsideDown" ->
            [x |-> frameY, y |-> frameWidth * 1000 - frameX,
             width |-> frameHeight, height |-> frameWidth]
      [] orientation = "landscapeLeft" ->
            [x |-> frameX, y |-> frameY, width |-> frameWidth, height |-> frameHeight]
      [] orientation = "landscapeRight" ->
            [x |-> frameHeight * 1000 - frameY, y |-> frameWidth * 1000 - frameX,
             width |-> frameHeight, height |-> frameWidth]
      [] OTHER ->
            [x |-> frameHeight * 1000 - frameY, y |-> frameX,
             width |-> frameHeight, height |-> frameWidth]

\* transformKeypointToScreen
transformKeypointToScreen(normalizedX, normalizedY, frameWidth, frameHeight, screenWidth, screenHeight, orientation, position, cropX, cropY, cropSize) ==
    IF frameWidth <= 0 \/ frameHeight <= 0 \/ screenWidth <= 0 \/ screenHeight <= 0
    THEN [x |-> 0, y |-> 0]
    ELSE IF normalizedX < 0 \/ normalizedX > 1000 \/ normalizedY < 0 \/ normalizedY > 1000
    THEN [x |-> 0, y |-> 0]
    ELSE
    LET cropSizeClamped == Max2(Max2(frameWidth, frameHeight), 1)
        croppedX == cropX * frameWidth
                      + ((normalizedX * frameWidth - cropX * frameWidth) * frameWidth)
                            \div cropSizeClamped
        croppedY == cropY * frameHeight
                      + ((normalizedY * frameHeight - cropY * frameHeight) * frameHeight)
                            \div cropSizeClamped
        clampedX == Clamp(croppedX, 0, frameWidth * 1000)
        frameX == IF position = "front" THEN frameWidth * 1000 - clampedX ELSE clampedX
        frameY == Clamp(croppedY, 0, frameHeight * 1000)
        o == Oriented(orientation, frameX, frameY, frameWidth, frameHeight)
        \* scale = min(screenWidth / o.width, screenHeight / o.height), as a fraction
        byWidth == screenWidth * o.height <= screenHeight * o.width
        num == IF byWidth THEN screenWidth ELSE screenHeight
        den == IF byWidth THEN o.width ELSE o.height
        offsetX == (screenWidth * 1000 - (o.width * 1000 * num) \div den) \div 2
        offsetY == (screenHeight * 1000 - (o.height * 1000 * num) \div den) \div 2
    IN  [x |-> Clamp((o.x * num) \div den + offsetX, 0, screenWidth * 1000),
         y |-> Clamp((o.y * num) \div den + offsetY, 0, screenHeight * 1000)]

----------------------------------------------------------------------------
(* VisionOnDeviceScreen (vision-ondevice.tsx)                               *)

\* useWindowDimensions()
screenWidthValue == [t |-> "number", v |-> 300]
screenHeightValue == [t |-> "number", v |-> 600]

\* the camera frame handed to the frame processor
CameraFrame == [width |-> 640, height |-> 480, orientation |-> "portrait"]

NullSkeleton == [isNull |-> TRUE, keypoints |-> << >>]

\* useState<any>(null) and setFeedback(null)
NullFeedback == [isNull |-> TRUE]

IdleEffect == [pc |-> "idle", currentTime |-> 0, full17Keypoints |-> << >>,
               activeTracks |-> << >>]

\* keypointsArray: [normalizedX, normalizedY, score] of every slot of the buffer
KeypointsArray(keypoints) ==
    [ j \in 1..17 |-> [x |-> keypoints[(j - 1) * 3 + 2], y |-> keypoints[(j - 1) * 3 + 1],
                       score |-> keypoints[(j - 1) * 3 + 3]] ]

\* the slots that pass the bounds and score checks of the keypointPositions loop
Passing(keypointsArray) ==
    { j \in 1..17 : /\ keypointsArray[j].x >= 0 /\ keypointsArray[j].x <= 1000
                    /\ keypointsArray[j].y >= 0 /\ keypointsArray[j].y <= 1000
                    /\ ~(keypointsArray[j].score < DETECTION_THRESHOLD) }

\* the members of a set of integers in increasing order
RECURSIVE Ascending(_)
Ascending(S) ==
    IF S = {} THEN << >> ELSE << SetMin(S) >> \o Ascending(S \ { SetMin(S) })

\* keypointPositions: screen position (to the whole pixel), score and index of
\* every passing slot
KeypointPositions(keypoints, position) ==
    LET keypointsArray == KeypointsArray(keypoints)
        cropRegion == determineCropRegion(keypointsArray, CameraFrame.width, CameraFrame.height)
        At(j) == transformKeypointToScreen(
                     keypointsArray[j].x, keypointsArray[j].y,
                     CameraFrame.width, CameraFrame.height,
                     screenWidthValue.v, screenHeightValue.v,
                     CameraFrame.orientation, position,
                     cropRegion.cropX, cropRegion.cropY, cropRegion.cropSize)
        order == Ascending(Passing(keypointsArray))
    IN  [ n \in 1..Len(order) |->
            [x |-> At(order[n]).x \div 1000, y |-> At(order[n]).y \div 1000,
             score |-> keypointsArray[order[n]].score, index |-> order[n] - 1] ]

\* what one call of the frame processor does once the frame is counted and not
\* skipped: the outcome, the filter state it leaves and the skeleton it posts
ProcessFrame(inference, lastKeypoints, position) ==
    IF ~inference.ok \/ Len(inference.outputs) # 51
    THEN { [outcome |-> "invalid", lastKeypoints |-> lastKeypoints, skeleton |-> NullSkeleton,
            smoothed |-> << >>] }
    ELSE UNION { { IF Len(s.result) < 51 \/ Len(kp) = 0
                   THEN [outcome |-> "rejected", lastKeypoints |-> s.lastKeypoints,
                         skeleton |-> NullSkeleton, smoothed |-> s.result]
                   ELSE [outcome |-> "emitted", lastKeypoints |-> s.lastKeypoints,
                         skeleton |-> [isNull |-> FALSE, keypoints |-> kp],
                         smoothed |-> s.result] :
                     kp \in { KeypointPositions(s.result, position) } } :
                 s \in { smoothKeypoints(inference.outputs, lastKeypoints,
                                          screenWidthValue, screenHeightValue) } }

\* a raw buffer of 17 keypoints spread below and to the right of (cx, cy)
RawPerson(cx, cy, score) ==
    [ k \in 1..51 |->
        LET i == (k - 1) \div 3
        IN  CASE (k - 1) % 3 = 0 -> cy + 25 * i
              [] (k - 1) % 3 = 1 -> cx + 15 * (i % 4)
              [] OTHER           -> score ]

RawA == RawPerson(200, 100, 80)       \* a confident body
RawNear == RawPerson(204, 103, 80)    \* the same body, moved by under 1% of the width
RawB == RawPerson(700, 500, 80)       \* a confident body far from the first
RawEdge == RawPerson(210, 100, 80)    \* the same body, moved by exactly 1% of the width
RawLow == RawPerson(200, 100, 10)     \* no keypoint reaches the detection threshold
RawShort == SubSeq(RawA, 1, 48)       \* 16 keypoints only

\* what the model's inference hands to the frame processor: nothing usable (any
\* of the early returns before smoothing), or a buffer of 51 values
Inferences ==
    { [ok |-> FALSE, outputs |-> << >>] }
      \cup { [ok |-> TRUE, outputs |-> b] : b \in { RawA, RawB, RawLow } }

OneBodyInferences ==
    { [ok |-> FALSE, outputs |-> << >>] }
      \cup { [ok |-> TRUE, outputs |-> b] : b \in { RawA, RawLow } }

\* arguments of the direct calls of smoothKeypoints
Buffers == { << >>, RawShort, RawA, RawNear, RawEdge, RawB, RawLow }

Widths == { screenWidthValue, [t |-> "number", v |-> 0], [t |-> "number", v |-> -300],
            [t |-> "undefined", v |-> 0] }

Heights == { screenHeightValue, [t |-> "number", v |-> 0], [t |-> "string", v |-> 0] }

\* (mutant) callbacks start whatever else is running
JSAlwaysFree == TRUE

\* Effects, their cleanups and setSkeletonData are callbacks of the one JS
\* thread, each synchronous (no await in them): a callback starts only when no
\* tracking effect is part-way through
JSFree == effect.pc = "idle"

\* (mutant) the handler leaves the filter state as it is
FilterKept == lastKeypointsRef

\* lastKeypointsRef.current = {}
FilterCleared == << >>

\* (mutant) every frame is processed
shouldProcessAlways(frameCount) == TRUE

\* shouldProcess = frameCountRef.current % FRAME_SKIP_INTERVAL === 0
shouldProcess(frameCount) == frameCount % FRAME_SKIP_INTERVAL = 0

\* frameProcessor (worklet thread): one camera frame, its inference drawn from
\* `inferences`, at most maxFrames frames counted
FrameProcessorOn(inferences, maxFrames) ==
    /\ mounted /\ isActive
    /\ frameCountRef < maxFrames
    /\ frameCountRef' = frameCountRef + 1
    /\ IF ~shouldProcess(frameCountRef')
       THEN /\ lastWorklet' = [lastWorklet EXCEPT !.outcome = "skipped",
                                    !.raw = << >>, !.smoothed = << >>]
            /\ UNCHANGED <<lastKeypointsRef, runOnJS>>
       ELSE \E inference \in inferences :
            \E r \in ProcessFrame(inference, lastKeypointsRef, cameraPosition) :
                /\ r.outcome = "emitted" => Len(runOnJS) < MaxPosted
                /\ lastWorklet' =
                     IF r.outcome = "invalid"
                     THEN [lastWorklet EXCEPT !.outcome = "invalid",
                                  !.raw = << >>, !.smoothed = << >>]
                     ELSE [outcome |-> r.outcome, raw |-> inference.outputs,
                           smoothed |-> r.smoothed, fresh |-> lastWorklet.cleared,
                           cleared |-> FALSE]
                /\ lastKeypointsRef' = r.lastKeypoints
                /\ runOnJS' = IF r.outcome = "emitted"
                              THEN Append(runOnJS, r.skeleton) ELSE runOnJS
    /\ UNCHANGED <<mounted, isActive, cameraPosition, skeletonData, effectDue, effect,
                   trackedPersonsRef, nextPersonIdRef, now, smoothCall>>
    /\ UNCHANGED <<tmVars, pureVars, limitVars, feedback>>

frameProcessor == FrameProcessorOn(Inferences, MaxFrameCount)

\* the same on a feed of one body that stands still or fades, for twice as many
\* frames
frameProcessorOneBody == FrameProcessorOn(OneBodyInferences, 2 * MaxFrameCount)

\* setSkeletonData run on the JS thread for a call of setSkeletonDataJS: the
\* state changes and the effects that depend on it are scheduled
setSkeletonData ==
    /\ mounted /\ JSFree /\ ~effectDue
    /\ runOnJS # << >>
    /\ skeletonData' = Head(runOnJS)
    /\ runOnJS' = Tail(runOnJS)
    /\ effectDue' = TRUE
    /\ UNCHANGED <<mounted, isActive, cameraPosition, frameCountRef, lastKeypointsRef,
                   effect, trackedPersonsRef, nextPersonIdRef, now, lastWorklet,
                   smoothCall>>
    /\ UNCHANGED <<tmVars, pureVars, limitVars, feedback>>

\* full17Keypoints: the sparse keypoints spread over the 17 slots
Full17Keypoints(keypoints) ==
    [ j \in 1..17 |->
        LET at == { n \in 1..Len(keypoints) : keypoints[n].index = j - 1 }
        IN  IF at = {} THEN [x |-> 0, y |-> 0, score |-> 0]
            ELSE LET kp == keypoints[SetMax(at)]
                 IN  [x |-> kp.x, y |-> kp.y, score |-> kp.score] ]

\* Array.from(trackedPersonsRef.current.values()).filter(...), in insertion order
ActiveTracksRef(tp, currentTime) ==
    LET ids == Ascending({ id \in DOMAIN tp :
                             (currentTime - tp[id].lastSeen) < TRACKING_MAX_AGE })
    IN  [ n \in 1..Len(ids) |-> tp[ids[n]] ]

\* the loop over activeTracks: the ID of the most similar track, -1 for none
RECURSIVE BestTrackRef(_, _, _, _, _)
BestTrackRef(full17Keypoints, activeTracks, i, bestTrackId, bestSimilarity) ==
    IF i > Len(activeTracks) THEN bestTrackId
    ELSE LET similarity == computeOKSSimilarityJS(full17Keypoints, activeTracks[i].keypoints)
         IN  IF similarity > bestSimilarity
             THEN BestTrackRef(full17Keypoints, activeTracks, i + 1, activeTracks[i].id, similarity)
             ELSE BestTrackRef(full17Keypoints, activeTracks, i + 1, bestTrackId, bestSimilarity)

\* tracking effect, first part: the guard, the pose, the time and the active set
trackingEffectBegin ==
    /\ mounted /\ JSFree /\ effectDue
    /\ nextPersonIdRef < MaxIds + 1
    /\ IF skeletonData.isNull \/ Len(skeletonData.keypoints) = 0
       THEN /\ effectDue' = FALSE
            /\ UNCHANGED effect
       ELSE /\ effect' = [pc |-> "active", currentTime |-> now,
                          full17Keypoints |-> Full17Keypoints(skeletonData.keypoints),
                          activeTracks |-> ActiveTracksRef(trackedPersonsRef, now)]
            /\ UNCHANGED effectDue
    /\ UNCHANGED <<mounted, isActive, cameraPosition, frameCountRef, lastKeypointsRef,
                   runOnJS, skeletonData, trackedPersonsRef, nextPersonIdRef, now,
                   lastWorklet, smoothCall>>
    /\ UNCHANGED <<tmVars, pureVars, limitVars, feedback>>

\* tracking effect, second part: the best match is updated, or a track is created
trackingEffectMatch ==
    /\ effect.pc = "active"
    /\ \E bestTrackId \in { BestTrackRef(effect.full17Keypoints, effect.activeTracks, 1,
                                         -1, TRACKING_MIN_SIMILARITY) } :
         IF bestTrackId >= 0
         THEN /\ trackedPersonsRef' =
                   IF bestTrackId \in DOMAIN trackedPersonsRef
                   THEN [trackedPersonsRef EXCEPT ![bestTrackId] =
                           [@ EXCEPT !.keypoints = effect.full17Keypoints,
                                     !.lastSeen = effect.currentTime]]
                   ELSE trackedPersonsRef
              /\ UNCHANGED nextPersonIdRef
         ELSE IF Len(effect.activeTracks) < TRACKING_MAX_PERSONS
         THEN /\ nextPersonIdRef' = nextPersonIdRef + 1
              /\ trackedPersonsRef' =
                   (nextPersonIdRef :> [id |-> nextPersonIdRef,
                                        lastSeen |-> effect.currentTime,
                                        keypoints |-> effect.full17Keypoints])
                   @@ trackedPersonsRef
         ELSE UNCHANGED <<trackedPersonsRef, nextPersonIdRef>>
    /\ effect' = [effect EXCEPT !.pc = "resolved"]
    /\ UNCHANGED <<mounted, isActive, cameraPosition, frameCountRef, lastKeypointsRef,
                   runOnJS, skeletonData, effectDue, now, lastWorklet, smoothCall>>
    /\ UNCHANGED <<tmVars, pureVars, limitVars, feedback>>

\* tracking effect, last part: the sweep
trackingEffectSweep ==
    /\ effect.pc = "resolved"
    /\ trackedPersonsRef' =
         [ id \in { i \in DOMAIN trackedPersonsRef :
                      ~((effect.currentTime - trackedPersonsRef[i].lastSeen) >= TRACKING_MAX_AGE) }
             |-> trackedPersonsRef[id] ]
    /\ effect' = [effect EXCEPT !.pc = "tracked"]
    /\ UNCHANGED <<mounted, isActive, cameraPosition, frameCountRef, lastKeypointsRef,
                   runOnJS, skeletonData, effectDue, nextPersonIdRef, now, lastWorklet,
                   smoothCall>>
    /\ UNCHANGED <<tmVars, pureVars, limitVars, feedback>>

\* isActive turns false and the deactivation effect runs
deactivate ==
    /\ mounted /\ JSFree /\ ~effectDue
    /\ isActive
    /\ isActive' = FALSE
    /\ skeletonData' = NullSkeleton
    /\ effectDue' = ~skeletonData.isNull
    /\ frameCountRef' = 0
    /\ lastKeypointsRef' = FilterCleared
    /\ lastWorklet' = [lastWorklet EXCEPT !.cleared = TRUE]
    /\ UNCHANGED <<mounted, cameraPosition, runOnJS, effect, trackedPersonsRef,
                   nextPersonIdRef, now, smoothCall>>
    /\ feedback' = NullFeedback
    /\ UNCHANGED <<tmVars, pureVars, limitVars>>

\* isActive turns true
activate ==
    /\ mounted /\ JSFree /\ ~effectDue
    /\ ~isActive
    /\ isActive' = TRUE
    /\ UNCHANGED <<mounted, cameraPosition, frameCountRef, lastKeypointsRef, runOnJS,
                   skeletonData, effectDue, effect, trackedPersonsRef, nextPersonIdRef,
                   now, lastWorklet, smoothCall>>
    /\ UNCHANGED <<tmVars, pureVars, limitVars, feedback>>

\* the camera-flip button
flipCamera ==
    /\ mounted /\ JSFree /\ ~effectDue
    /\ cameraPosition' = IF cameraPosition = "front" THEN "back" ELSE "front"
    /\ lastKeypointsRef' = FilterCleared
    /\ lastWorklet' = [lastWorklet EXCEPT !.cleared = TRUE]
    /\ UNCHANGED <<mounted, isActive, frameCountRef, runOnJS, skeletonData, effectDue,
                   effect, trackedPersonsRef, nextPersonIdRef, now,
                   smoothCall>>
    /\ UNCHANGED <<tmVars, pureVars, limitVars, feedback>>

\* the component unmounts: the cleanups of the effects run
unmount ==
    /\ mounted /\ JSFree
    /\ mounted' = FALSE
    /\ isActive' = FALSE
    /\ skeletonData' = NullSkeleton
    /\ trackedPersonsRef' = << >>
    /\ lastKeypointsRef' = FilterCleared
    /\ lastWorklet' = [lastWorklet EXCEPT !.cleared = TRUE]
    /\ UNCHANGED <<cameraPosition, frameCountRef, runOnJS, effectDue, effect,
                   nextPersonIdRef, now, smoothCall>>
    /\ feedback' = NullFeedback
    /\ UNCHANGED <<tmVars, pureVars, limitVars>>

\* time passes
Tick ==
    /\ mounted
    /\ now < MaxTick * TimeStep
    /\ now' = now + TimeStep
    /\ UNCHANGED <<mounted, isActive, cameraPosition, frameCountRef, lastKeypointsRef,
                   runOnJS, skeletonData, effectDue, effect, trackedPersonsRef,
                   nextPersonIdRef, lastWorklet, smoothCall>>
    /\ UNCHANGED <<tmVars, pureVars, limitVars, feedback>>

\* a direct call of smoothKeypoints on the filter state, with any arguments
SmoothCall ==
    /\ smoothCall.n < MaxCalls
    /\ \E keypoints \in Buffers, w \in Widths, h \in Heights :
       \E r \in { smoothKeypoints(keypoints, lastKeypointsRef, w, h) } :
           /\ lastKeypointsRef' = r.lastKeypoints
           /\ smoothCall' = [n |-> smoothCall.n + 1, keypoints |-> keypoints,
                             screenWidth |-> w, screenHeight |-> h,
                             before |-> lastKeypointsRef, after |-> r.lastKeypoints,
                             result |-> r.result]
    /\ UNCHANGED screenVars
    /\ UNCHANGED <<tmVars, pureVars, limitVars>>

----------------------------------------------------------------------------
(* analyzeLiftForm: positions in whole pixels, scores in hundredths, angles   *)
(* in whole degrees; a lift type is a tagged value as typeof and Array.isArray *)
(* see it                                                                      *)

\* 1000 cos d for d = 0 .. 180 degrees
CosDeg ==
    << 1000, 1000, 999, 999, 998, 996, 995, 993, 990, 988, 985, 982,
       978, 974, 970, 966, 961, 956, 951, 946, 940, 934, 927, 921,
       914, 906, 899, 891, 883, 875, 866, 857, 848, 839, 829, 819,
       809, 799, 788, 777, 766, 755, 743, 731, 719, 707, 695, 682,
       669, 656, 643, 629, 616, 602, 588, 574, 559, 545, 530, 515,
       500, 485, 469, 454, 438, 423, 407, 391, 375, 358, 342, 326,
       309, 292, 276, 259, 242, 225, 208, 191, 174, 156, 139, 122,
       105, 87, 70, 52, 35, 17, 0, -17, -35, -52, -70, -87,
       -105, -122, -139, -156, -174, -191, -208, -225, -242, -259, -276, -292,
       -309, -326, -342, -358, -375, -391, -407, -423, -438, -454, -469, -485,
       -500, -515, -530, -545, -559, -574, -588, -602, -616, -629, -643, -656,
       -669, -682, -695, -707, -719, -731, -743, -755, -766, -777, -788, -799,
       -809, -819, -829, -839, -848, -857, -866, -875, -883, -891, -899, -906,
       -914, -921, -927, -934, -940, -946, -951, -956, -961, -966, -970, -974,
       -978, -982, -985, -988, -990, -993, -995, -996, -998, -999, -999, -1000,
       -1000 >>

\* the angle in 0 .. 180 whose cosine is c / 1000, to the degree
AcosDeg(c) == CHOOSE d \in 0..180 : CosDeg[d + 1] <= c /\ (d = 0 \/ CosDeg[d] > c)

getPoint(keypoints, index, screenWidth, screenHeight) ==
    [x |-> (keypoints[index * 3 + 2] * screenWidth) \div 1000,
     y |-> (keypoints[index * 3 + 1] * screenHeight) \div 1000,
     score |-> keypoints[index * 3 + 3]]

\* the square of calculateDistance, which is never null on finite positions
DistanceSq(p1, p2) == (p2.x - p1.x) * (p2.x - p1.x) + (p2.y - p1.y) * (p2.y - p1.y)

\* calculateAngle: the angle at p2 between p1 and p3, or null when p2 is
\* less than a pixel from either
calculateAngle(p1, p2, p3) ==
    IF DistanceSq(p1, p2) < 1 \/ DistanceSq(p2, p3) < 1
    THEN [isNull |-> TRUE, v |-> 0]
    ELSE LET dot == (p1.x - p2.x) * (p3.x - p2.x) + (p1.y - p2.y) * (p3.y - p2.y)
             len == (Sqrt(DistanceSq(p1, p2) * 100) * Sqrt(DistanceSq(p2, p3) * 100)) \div 100
         IN  [isNull |-> FALSE, v |-> AcosDeg(Clamp((dot * 1000) \div len, -1000, 1000))]

\* getBilateralPoint without its last case: the left point stands in
getBilateralPointNoNone(leftPoint, rightPoint) ==
    [x |-> leftPoint.x, y |-> leftPoint.y, score |-> leftPoint.score, side |-> "left"]

getBilateralPoint(leftPoint, rightPoint) ==
    LET leftOk == leftPoint.score > DETECTION_THRESHOLD
        rightOk == rightPoint.score > DETECTION_THRESHOLD
        totalScore == leftPoint.score + rightPoint.score
    IN  CASE leftOk /\ rightOk ->
               [x |-> (leftPoint.x * leftPoint.score + rightPoint.x * rightPoint.score) \div totalScore,
                y |-> (leftPoint.y * leftPoint.score + rightPoint.y * rightPoint.score) \div totalScore,
                score |-> Max2(leftPoint.score, rightPoint.score), side |-> "avg"]
          [] leftOk /\ ~rightOk ->
               [x |-> leftPoint.x, y |-> leftPoint.y, score |-> leftPoint.score, side |-> "left"]
          [] ~leftOk /\ rightOk ->
               [x |-> rightPoint.x, y |-> rightPoint.y, score |-> rightPoint.score, side |-> "right"]
          [] OTHER -> [x |-> 0, y |-> 0, score |-> 0, side |-> "none"]

\* a check that pushes its message twice
FindingTwice(msg, penalty) ==
    << [msg |-> msg, penalty |-> penalty], [msg |-> msg, penalty |-> 0] >>

\* what a check of the form contributes: feedback.push(msg); formScore -= penalty
Finding(msg, penalty) == << [msg |-> msg, penalty |-> penalty] >>

NoFinding == << >>

\* the landmarks analyzeLiftForm reads, and the four bilateral points
Landmarks(keypoints, screenWidth, screenHeight) ==
    LET p(i) == getPoint(keypoints, i, screenWidth, screenHeight)
    IN  [leftShoulder |-> p(5), rightShoulder |-> p(6), leftElbow |-> p(7),
         rightElbow |-> p(8), leftWrist |-> p(9), rightWrist |-> p(10),
         leftHip |-> p(11), rightHip |-> p(12), leftKnee |-> p(13),
         rightKnee |-> p(14), leftAnkle |-> p(15), rightAnkle |-> p(16),
         shoulder |-> getBilateralPoint(p(5), p(6)),
         hip |-> getBilateralPoint(p(11), p(12)),
         knee |-> getBilateralPoint(p(13), p(14)),
         ankle |-> getBilateralPoint(p(15), p(16))]

SquatFindings(b, userHeight) ==
    IF b.hip.side # "none" /\ b.knee.side # "none" /\ b.ankle.side # "none" /\ b.shoulder.side # "none"
    THEN LET depthRatio == b.hip.y - b.knee.y
             torsoLength == Abs(b.shoulder.y - b.hip.y)
             height == IF userHeight > 0 THEN userHeight ELSE 170
             depth ==
                 CASE depthRatio * 1700 < -(torsoLength * height) ->
                        Finding(IF userHeight # 0 THEN "Excellent depth (calibrated)"
                                ELSE "Excellent depth - below parallel", 0)
                   [] depthRatio * 1700 >= -(torsoLength * height)
                        /\ depthRatio * 3400 < torsoLength * height ->
                        Finding("At parallel - try slightly deeper", 5)
                   [] OTHER -> Finding("Too shallow - squat deeper", 20)
             kneeWidth == Abs(b.leftKnee.x - b.rightKnee.x)
             ankleWidth == Abs(b.leftAnkle.x - b.rightAnkle.x)
             knees ==
                 IF b.leftKnee.score > DETECTION_THRESHOLD /\ b.rightKnee.score > DETECTION_THRESHOLD
                    /\ b.leftAnkle.score > DETECTION_THRESHOLD /\ b.rightAnkle.score > DETECTION_THRESHOLD
                 THEN CASE kneeWidth * 100 < ankleWidth * 75 ->
                             Finding("Knees caving in - push knees out", 15)
                        [] kneeWidth * 100 >= ankleWidth * 75 /\ kneeWidth * 10 < ankleWidth * 9 ->
                             Finding("Watch knee tracking", 5)
                        [] OTHER -> Finding("Good knee tracking", 0)
                 ELSE NoFinding
             hipAngle == calculateAngle(b.shoulder, b.hip, b.knee)
             torso ==
                 CASE hipAngle.isNull -> NoFinding
                   [] ~hipAngle.isNull /\ hipAngle.v < 50 ->
                        Finding("Chest up! Torso too horizontal", 15)
                   [] ~hipAngle.isNull /\ hipAngle.v >= 50 /\ hipAngle.v < 70 ->
                        Finding("Keep chest more upright", 5)
                   [] OTHER -> Finding("Good torso position", 0)
             kneeAngle == calculateAngle(b.hip, b.knee, b.ankle)
             rom ==
                 CASE kneeAngle.isNull -> NoFinding
                   [] ~kneeAngle.isNull /\ kneeAngle.v < 60 ->
                        Finding("Very deep squat - check mobility", 0)
                   [] ~kneeAngle.isNull /\ kneeAngle.v >= 60 /\ kneeAngle.v < 90 ->
                        Finding("Good squat depth", 0)
                   [] OTHER -> Finding("Squat deeper for full ROM", 10)
         IN  depth \o knees \o torso \o rom
    ELSE Finding("Position yourself to show full body", 30)

BenchFindings(b) ==
    LET elbow == getBilateralPoint(b.leftElbow, b.rightElbow)
        wrist == getBilateralPoint(b.leftWrist, b.rightWrist)
    IN  IF b.shoulder.side # "none" /\ elbow.side # "none" /\ wrist.side # "none"
        THEN LET elbowAngle == calculateAngle(b.shoulder, elbow, wrist)
                 flare ==
                     CASE elbowAngle.isNull -> NoFinding
                       [] ~elbowAngle.isNull /\ elbowAngle.v < 60 ->
                            Finding("Elbows too flared - tuck them", 15)
                       [] ~elbowAngle.isNull /\ elbowAngle.v > 95 ->
                            Finding("Elbows could tuck more (75-90)", 5)
                       [] OTHER -> Finding("Good elbow angle", 0)
                 barPathDeviation == Abs(b.shoulder.x - wrist.x)
                 shoulderWidth == Max2(Abs(b.leftShoulder.x - b.rightShoulder.x), 1)
                 barPath ==
                     CASE barPathDeviation * 10 > 3 * shoulderWidth ->
                            Finding("Bar path not vertical", 15)
                       [] barPathDeviation * 10 <= 3 * shoulderWidth
                            /\ barPathDeviation * 100 > 15 * shoulderWidth ->
                            Finding("Keep bar path straight", 5)
                       [] OTHER -> Finding("Excellent bar path", 0)
                 wrists ==
                     IF DistanceSq(wrist, elbow) * 100 < 9 * DistanceSq(elbow, b.shoulder)
                     THEN Finding("Wrists bent - keep neutral", 10)
                     ELSE NoFinding
                 leftArmAngle == calculateAngle(b.leftShoulder, b.leftElbow, b.leftWrist)
                 rightArmAngle == calculateAngle(b.rightShoulder, b.rightElbow, b.rightWrist)
                 arms ==
                     IF b.leftElbow.score > DETECTION_THRESHOLD /\ b.rightElbow.score > DETECTION_THRESHOLD
                        /\ b.leftWrist.score > DETECTION_THRESHOLD /\ b.rightWrist.score > DETECTION_THRESHOLD
                        /\ ~leftArmAngle.isNull /\ ~rightArmAngle.isNull
                     THEN IF Abs(leftArmAngle.v - rightArmAngle.v) > 15
                          THEN Finding("Uneven arms - check form", 10)
                          ELSE Finding("Symmetric arm movement", 0)
                     ELSE NoFinding
             IN  flare \o barPath \o wrists \o arms
        ELSE Finding("Position camera to show upper body", 30)

DeadliftFindings(b, screenHeight) ==
    IF b.hip.side # "none" /\ b.shoulder.side # "none" /\ b.knee.side # "none" /\ b.ankle.side # "none"
    THEN LET hipKneeRatio == b.hip.y - b.knee.y
             torsoLength == Abs(b.shoulder.y - b.hip.y)
             hips ==
                 CASE hipKneeRatio * 10 < -torsoLength ->
                        Finding("Hips too low - not a squat!", 20)
                   [] hipKneeRatio * 10 >= -torsoLength /\ hipKneeRatio * 10 > 3 * torsoLength ->
                        Finding("Hips might be too high", 5)
                   [] OTHER -> Finding("Good hip position", 0)
             hipShoulderVertical == Abs(b.shoulder.y - b.hip.y)
             hipShoulderHorizontal == Abs(b.shoulder.x - b.hip.x)
             backAngleDegrees ==
                 calculateAngle([x |-> hipShoulderHorizontal, y |-> hipShoulderVertical],
                                [x |-> 0, y |-> 0], [x |-> 1, y |-> 0]).v
             back ==
                 CASE hipShoulderVertical <= 0 -> NoFinding
                   [] hipShoulderVertical > 0 /\ backAngleDegrees < 30 ->
                        Finding("Back too horizontal - DANGEROUS", 25)
                   [] hipShoulderVertical > 0 /\ backAngleDegrees >= 30 /\ backAngleDegrees < 40 ->
                        Finding("Lift chest slightly", 10)
                   [] hipShoulderVertical > 0 /\ backAngleDegrees > 75 ->
                        Finding("Too vertical - engage hips more", 10)
                   [] OTHER -> Finding("Good back angle", 0)
             lockoutAlignment == Abs(b.hip.x - b.shoulder.x)
             lockout ==
                 IF lockoutAlignment * 100 < torsoLength * 15 /\ torsoLength * 10 > screenHeight * 2
                 THEN Finding("Full lockout achieved!", 0)
                 ELSE NoFinding
             shoulderKneeX == b.shoulder.x - b.knee.x
             kneeWidth == Abs(b.leftKnee.x - b.rightKnee.x)
             shoulders ==
                 IF shoulderKneeX * 2 < -kneeWidth
                 THEN Finding("Shoulders behind bar - shift forward", 10)
                 ELSE Finding("Good shoulder position", 0)
         IN  hips \o back \o lockout \o shoulders
    ELSE Finding("Position to show full body from side", 30)

\* formScore -= penalty, with the sign turned
PenaliseUp(formScore, penalty) == formScore + penalty

\* formScore -= penalty
Penalise(formScore, penalty) == formScore - penalty

RECURSIVE ScoreAfter(_, _)
\* formScore once every finding's penalty was taken, in order
ScoreAfter(findings, formScore) ==
    IF findings = << >> THEN formScore
    ELSE ScoreAfter(Tail(findings), Penalise(formScore, Head(findings).penalty))

\* the feedback array once every finding's message was pushed
Pushed(findings) == [k \in 1..Len(findings) |-> findings[k].msg]

\* Array.prototype.slice(start, end) for 0 <= start <= end
slice(array, start, end) == SubSeq(array, start + 1, Min2(end, Len(array)))

\* String.prototype.toLowerCase on the lift types used here
toLowerCase(s) ==
    CASE s = "Squat" -> "squat"
      [] s = "BENCH" -> "bench"
      [] OTHER -> s

UndefinedLift == [t |-> "undefined"]
ArrayLift == [t |-> "array"]
StringLift(s) == [t |-> "string", v |-> s]

\* !liftType || Array.isArray(liftType)
NoLiftType(liftType) ==
    \/ liftType.t = "undefined"
    \/ liftType.t = "array"
    \/ liftType.t = "string" /\ liftType.v = ""

\* the checks of the selected lift, in the order the code makes them
LiftFindings(keypoints, liftType, screenWidth, screenHeight, userHeight) ==
    LET b == Landmarks(keypoints, screenWidth, screenHeight)
        lift == toLowerCase(liftType.v)
    IN  CASE lift = "squat" -> SquatFindings(b, userHeight)
          [] lift = "bench" -> BenchFindings(b)
          [] lift = "deadlift" -> DeadliftFindings(b, screenHeight)
          [] OTHER -> NoFinding

analyzeLiftForm(keypoints, liftType, screenWidth, screenHeight, userHeight) ==
    IF NoLiftType(liftType)
    THEN [feedback |-> << "Select a lift type" >>, formScore |-> 0, liftType |-> "unknown"]
    ELSE LET findings == LiftFindings(keypoints, liftType, screenWidth, screenHeight, userHeight)
         IN  [feedback |-> slice(Pushed(findings), 0, 4),
              formScore |-> Max2(0, ScoreAfter(findings, 100)),
              liftType |-> liftType.v]

\* bodies for the analysis: the left landmarks, the right ones gap to their
\* right, the right knee and wrist placed on their own; positions in thousandths
BodyShape(sh, el, wr, hi, kn, an, gap, rkn, rwr) ==
    [ i \in 0..16 |->
        CASE i = 5 -> sh [] i = 6 -> << sh[1] + gap, sh[2] >>
          [] i = 7 -> el [] i = 8 -> << el[1] + gap, el[2] >>
          [] i = 9 -> wr [] i = 10 -> rwr
          [] i = 11 -> hi [] i = 12 -> << hi[1] + gap, hi[2] >>
          [] i = 13 -> kn [] i = 14 -> rkn
          [] i = 15 -> an [] i = 16 -> << an[1] + gap, an[2] >>
          [] OTHER -> << 500, 100 >> ]

BodyShapes ==
    { BodyShape(<<400, 200>>, <<380, 350>>, <<370, 480>>, <<410, 500>>, <<410, 700>>,
                <<410, 900>>, 200, <<610, 700>>, <<570, 480>>),
      BodyShape(<<400, 450>>, <<380, 550>>, <<370, 600>>, <<300, 700>>, <<450, 700>>,
                <<420, 900>>, 200, <<550, 700>>, <<570, 600>>),
      BodyShape(<<250, 650>>, <<250, 750>>, <<250, 850>>, <<400, 600>>, <<420, 610>>,
                <<420, 900>>, 200, <<620, 610>>, <<450, 850>>),
      BodyShape(<<400, 300>>, <<300, 300>>, <<300, 200>>, <<400, 320>>, <<400, 340>>,
                <<400, 360>>, 200, <<600, 340>>, <<500, 100>>),
      BodyShape(<<400, 300>>, <<400, 400>>, <<410, 410>>, <<400, 600>>, <<400, 600>>,
                <<400, 900>>, 0, <<400, 600>>, <<410, 410>>) }

\* the landmark pairs the analysis reads
LandmarkPairs == { {5, 6}, {7, 8}, {9, 10}, {11, 12}, {13, 14}, {15, 16} }

\* which landmarks the model did not see: any pairs, or one left landmark
HiddenSets == { UNION ps : ps \in SUBSET LandmarkPairs } \cup { {i} : i \in {5, 7, 9, 11, 13, 15} }

\* the keypoint buffer of a body: seen landmarks score 0.8, hidden ones 0.1
LiftKeypoints(shape, hidden) ==
    [ k \in 1..51 |->
        LET i == (k - 1) \div 3
        IN  CASE (k - 1) % 3 = 0 -> shape[i][2]
              [] (k - 1) % 3 = 1 -> shape[i][1]
              [] OTHER -> IF i \in hidden THEN 10 ELSE 80 ]

LiftTypes ==
    { UndefinedLift, ArrayLift } \cup
    { StringLift(s) : s \in { "", "squat", "Squat", "bench", "BENCH", "deadlift", "curl" } }

\* userHeight in cm; 0 stands for an absent one, which is falsy as 0 is
UserHeights == { 0, 170, 190 }

\* one call of analyzeLiftForm, as the form-analysis effect makes it
AnalyzeLift ==
    /\ call.fn = "none"
    /\ \E shape \in BodyShapes, hidden \in HiddenSets, liftType \in LiftTypes, userHeight \in UserHeights :
         LET keypoints == LiftKeypoints(shape, hidden)
         IN  \E r \in { analyzeLiftForm(keypoints, liftType, screenWidthValue.v,
                                       screenHeightValue.v, userHeight) } :
                 call' = [fn |-> "analyzeLiftForm", keypoints |-> keypoints,
                          liftType |-> liftType, userHeight |-> userHeight,
                          pushed |-> IF NoLiftType(liftType) THEN << >>
                                     ELSE Pushed(LiftFindings(keypoints, liftType,
                                              screenWidthValue.v, screenHeightValue.v, userHeight)),
                          result |-> r]
    /\ UNCHANGED <<tmVars, filterVars, screenVars, limitVars>>


----------------------------------------------------------------------------
(* The form-analysis effect of the screen *)

\* useLocalSearchParams().lift and the profile of the signed-in user
liftParam == StringLift("squat")
userProfile == [height |-> 170, weight |-> 70]

\* analyzePose: the quality score of a buffer of 51 values
analyzePose(keypoints, userHeight) ==
    LET scores == [ i \in 0..16 |-> keypoints[i * 3 + 3] ]
        visible == Cardinality({ i \in 0..16 : scores[i] > DETECTION_THRESHOLD })
        high == Cardinality({ i \in 0..16 : scores[i] > HIGH_CONFIDENCE })
        checkBodyPart(indices) ==
            IF 2 * Cardinality({ i \in indices : scores[i] > DETECTION_THRESHOLD })
                 >= Cardinality(indices)
            THEN 10 ELSE 0
    IN  [qualityScore |->
           (IF 10 * visible >= 8 * 17 THEN 40 ELSE IF 10 * visible >= 6 * 17 THEN 20 ELSE 0)
           + (IF 10 * high >= 7 * 17 THEN 30 ELSE IF 10 * high >= 4 * 17 THEN 20 ELSE 0)
           + checkBodyPart({5, 6}) + checkBodyPart({11, 12})
           + checkBodyPart({13, 14}) + checkBodyPart({15, 16})
           + (IF userHeight > 0 THEN 5 ELSE 0)]

\* keypointsForAnalysis: a zeroed Float32Array(51) filled from the skeleton's
\* keypoints, the positions divided by the screen's size (thousandths)
KeypointsForAnalysis(keypoints) ==
    [ k \in 1..51 |->
        LET idx == (k - 1) \div 3
            at == { n \in 1..Len(keypoints) : keypoints[n].index = idx }
        IN  IF at = {} THEN 0
            ELSE LET kp == keypoints[SetMax(at)]
                 IN  CASE (k - 1) % 3 = 0 -> (kp.y * 1000) \div screenHeightValue.v
                       [] (k - 1) % 3 = 1 -> (kp.x * 1000) \div screenWidthValue.v
                       [] OTHER -> kp.score ]

\* the form-analysis effect: declared after the tracking effect, it runs after
\* it in the same commit, on the same skeleton
formAnalysisEffect ==
    /\ effect.pc = "tracked"
    /\ \E keypointsForAnalysis \in { KeypointsForAnalysis(skeletonData.keypoints) } :
       \E analysis \in { analyzePose(keypointsForAnalysis, userProfile.height) } :
       \E liftAnalysis \in { analyzeLiftForm(keypointsForAnalysis, liftParam,
                                 screenWidthValue.v, screenHeightValue.v, userProfile.height) } :
           feedback' = [isNull |-> FALSE,
                        qualityScore |-> analysis.qualityScore,
                        liftFeedback |-> liftAnalysis.feedback,
                        liftScore |-> liftAnalysis.formScore,
                        liftType |-> liftAnalysis.liftType,
                        status |-> "analyzing"]
    /\ effect' = IdleEffect
    /\ effectDue' = FALSE
    /\ UNCHANGED <<mounted, isActive, cameraPosition, frameCountRef, lastKeypointsRef,
                   runOnJS, skeletonData, trackedPersonsRef, nextPersonIdRef, now,
                   lastWorklet, smoothCall>>
    /\ UNCHANGED <<tmVars, pureVars, limitVars>>


----------------------------------------------------------------------------
(* The similarity functions called on their own *)

\* a pose of n keypoints: the first k on a diagonal from (x0, x0), step apart,
\* with the given score; the others at (100, 100) with score 0.1
OksPose(n, k, x0, step, score) ==
    [ i \in 1..n |->
        IF i <= k
        THEN [x |-> x0 + (i - 1) * step, y |-> x0 + (i - 1) * step, score |-> score]
        ELSE [x |-> 100, y |-> 100, score |-> 10] ]

\* a confident pose of n keypoints at the origin, the last one Huge away
FarPose(n) ==
    [ i \in 1..n |->
        IF i < n THEN [x |-> 0, y |-> 0, score |-> 90]
        ELSE [x |-> Huge, y |-> Huge, score |-> 90] ]

OksPoses ==
    { OksPose(n, k, x0, step, score) :
        n \in { 0, 4, 10, 17 }, k \in { 3, 4, 17 }, x0 \in { 100, 104 },
        step \in { 0, 1 }, score \in { 0, 30, 90 } }
    \cup { FarPose(4), FarPose(17) }

\* one call of each similarity function on the same pair of poses
Similarity ==
    /\ call.fn = "none"
    /\ \E person1Keypoints \in OksPoses, person2Keypoints \in OksPoses :
         call' = [fn |-> "similarity",
                  person1Keypoints |-> person1Keypoints,
                  person2Keypoints |-> person2Keypoints,
                  areaJS |-> computeKeypointAreaJS(person2Keypoints),
                  area |-> computeKeypointArea(person2Keypoints),
                  resultJS |-> computeOKSSimilarityJS(person1Keypoints, person2Keypoints),
                  result |-> computeOKSSimilarity(person1Keypoints, person2Keypoints)]
    /\ UNCHANGED <<tmVars, filterVars, screenVars, limitVars>>


----------------------------------------------------------------------------
(* The login rate limiter (utils/security.ts), times in ms *)

RATE_LIMIT_CONFIG ==
    [maxAttempts |-> 5,
     windowMs |-> 15 * 60 * 1000,
     lockoutDurationMs |-> 30 * 60 * 1000]

\* the clock moves in thirds of the window, MaxLimitTick times at most
LimitStep == RATE_LIMIT_CONFIG.windowMs \div 3
MaxLimitTick == 8

\* the e-mail addresses that log in
Identifiers == { "ana@x.org", "ben@x.org" }

\* a new entry: { count: 1, firstAttempt: now, lastAttempt: now }
FirstEntry(now0) == [count |-> 1, firstAttempt |-> now0, lastAttempt |-> now0]

\* Math.ceil(a / b) for a >= 0, b > 0
Ceil(a, b) == (a + b - 1) \div b

\* the else of `now < lockoutEnd`
LockoutOver(entry, now0) ==
    ~(now0 < entry.lastAttempt + RATE_LIMIT_CONFIG.lockoutDurationMs)

\* now - entry.firstAttempt > RATE_LIMIT_CONFIG.windowMs
WindowExpired(entry, now0) == now0 - entry.firstAttempt > RATE_LIMIT_CONFIG.windowMs

\* checkRateLimit: the map it leaves and the value it returns
checkRateLimit(map, identifier, now0) ==
    LET fresh == [map |-> (identifier :> FirstEntry(now0)) @@ map,
                  allowed |-> TRUE, retryAfter |-> -1,
                  attemptsRemaining |-> RATE_LIMIT_CONFIG.maxAttempts - 1]
    IN  IF identifier \notin DOMAIN map THEN fresh
        ELSE LET entry == map[identifier]
             IN  IF WindowExpired(entry, now0) THEN fresh
                 ELSE IF entry.count >= RATE_LIMIT_CONFIG.maxAttempts
                 THEN IF ~LockoutOver(entry, now0)
                      THEN [map |-> map, allowed |-> FALSE,
                            retryAfter |->
                               Ceil(entry.lastAttempt + RATE_LIMIT_CONFIG.lockoutDurationMs - now0,
                                    60000),
                            attemptsRemaining |-> 0]
                      ELSE fresh
                 ELSE [map |-> [map EXCEPT ![identifier] =
                                   [@ EXCEPT !.count = @ + 1, !.lastAttempt = now0]],
                       allowed |-> TRUE, retryAfter |-> -1,
                       attemptsRemaining |->
                          RATE_LIMIT_CONFIG.maxAttempts - (entry.count + 1)]

\* resetRateLimit: rateLimitMap.delete(identifier)
resetRateLimit(map, identifier) == [ id \in DOMAIN map \ {identifier} |-> map[id] ]

\* onLogin checks the limit for the e-mail address before it signs in
CheckRateLimit ==
    /\ \E identifier \in Identifiers :
       \E r \in { checkRateLimit(rateLimitMap, identifier, dateNow) } :
           /\ rateLimitMap' = r.map
           /\ lastLimitCall' = [fn |-> "checkRateLimit", identifier |-> identifier,
                                allowed |-> r.allowed, retryAfter |-> r.retryAfter,
                                attemptsRemaining |-> r.attemptsRemaining]
    /\ UNCHANGED dateNow
    /\ UNCHANGED <<tmVars, filterVars, screenVars, pureVars>>

\* onLogin resets the limit of the e-mail address after a successful sign-in
ResetRateLimit ==
    /\ \E identifier \in DOMAIN rateLimitMap :
           /\ rateLimitMap' = resetRateLimit(rateLimitMap, identifier)
           /\ lastLimitCall' = [fn |-> "resetRateLimit", identifier |-> identifier]
    /\ UNCHANGED dateNow
    /\ UNCHANGED <<tmVars, filterVars, screenVars, pureVars>>

\* time passes
LimitTick ==
    /\ dateNow < MaxLimitTick * LimitStep
    /\ dateNow' = dateNow + LimitStep
    /\ UNCHANGED <<rateLimitMap, lastLimitCall>>
    /\ UNCHANGED <<tmVars, filterVars, screenVars, pureVars>>

----------------------------------------------------------------------------
(* Specifications *)

InitScreen ==
    /\ mounted = TRUE
    /\ isActive = TRUE
    /\ cameraPosition = "front"
    /\ frameCountRef = 0
    /\ lastKeypointsRef = << >>
    /\ runOnJS = << >>
    /\ skeletonData = NullSkeleton
    /\ effectDue = FALSE
    /\ effect = IdleEffect
    /\ trackedPersonsRef = << >>
    /\ nextPersonIdRef = 0
    /\ now = 0
    /\ feedback = NullFeedback
    /\ lastWorklet = [outcome |-> "none", raw |-> << >>, smoothed |-> << >>,
                      fresh |-> FALSE, cleared |-> TRUE]
    /\ smoothCall = [n |-> 0, keypoints |-> << >>, screenWidth |-> screenWidthValue,
                     screenHeight |-> screenHeightValue, before |-> << >>,
                     after |-> << >>, result |-> << >>]

InitPure == call = [fn |-> "none"]

InitLimit ==
    /\ rateLimitMap = << >>
    /\ dateNow = 0
    /\ lastLimitCall = [fn |-> "none"]

Init == InitTM /\ InitScreen /\ InitPure /\ InitLimit

Next == Frame \/ CrowdFrame \/ Reset

Spec == Init /\ [][Next]_vars

NextScreen ==
    \/ frameProcessor
    \/ setSkeletonData
    \/ trackingEffectBegin
    \/ trackingEffectMatch
    \/ trackingEffectSweep
    \/ formAnalysisEffect
    \/ deactivate
    \/ activate
    \/ unmount
    \/ Tick

SpecScreen == Init /\ [][NextScreen]_vars

\* the camera's life with one body in view: frames, flips, deactivation and
\* unmount, the clock standing still
NextCamera ==
    \/ frameProcessorOneBody
    \/ setSkeletonData
    \/ trackingEffectBegin
    \/ trackingEffectMatch
    \/ trackingEffectSweep
    \/ formAnalysisEffect
    \/ deactivate
    \/ activate
    \/ flipCamera
    \/ unmount

SpecCamera == Init /\ [][NextCamera]_vars

NextSmooth == SmoothCall \/ flipCamera

SpecSmooth == Init /\ [][NextSmooth]_vars

NextLift == AnalyzeLift

SpecLift == Init /\ [][NextLift]_vars

NextOKS == Similarity

SpecOKS == Init /\ [][NextOKS]_vars

NextLimit == CheckRateLimit \/ ResetRateLimit \/ LimitTick

SpecLimit == Init /\ [][NextLimit]_vars

----------------------------------------------------------------------------
(* Claims about the TrackingManager, checked under Spec *)

CreatedIn(frame) ==
    { k \in 1..Len(frame.outcome) : frame.outcome[k].kind = "created" }

MatchedIn(frame) ==
    { k \in 1..Len(frame.outcome) : frame.outcome[k].kind = "matched" }

\* C1: every track created by a frame gets an ID strictly greater than every ID
\* assigned before it (by an earlier frame or earlier in the same frame, removed
\* tracks included), and every track of the registry is stored under its own ID
\* and was assigned it: no ID is reused, no two tracks share one.
C1_IdsStrictlyIncrease ==
    /\ [](\A id \in DOMAIN trackedPersons :
            trackedPersons[id].id = id /\ id \in assigned /\ id < nextPersonId)
    /\ [][ \A k \in CreatedIn(lastFrame') :
             /\ \A a \in assigned : lastFrame'.outcome[k].id > a
             /\ \A j \in CreatedIn(lastFrame') :
                    j < k => lastFrame'.outcome[k].id > lastFrame'.outcome[j].id
             /\ lastFrame'.outcome[k].id \in DOMAIN trackedPersons' ]_vars

\* C1 witness: a track was removed and a later frame created a track
C1_Witness ==
    /\ \E a \in assigned : a \notin DOMAIN trackedPersons
    /\ \E k \in CreatedIn(lastFrame) :
          \A a \in assigned \ DOMAIN trackedPersons : lastFrame.outcome[k].id > a

\* C2: after a frame processed at time now, no track of the registry has
\* now - lastSeen >= MAX_AGE, whether the frame touched it or not.
C2_NoStaleTrackAfterFrame ==
    lastFrame.timestamp >= 0 =>
        \A id \in DOMAIN trackedPersons :
            lastFrame.timestamp - trackedPersons[id].lastSeen < TRACKING_MAX_AGE

\* C2 witness: a frame that matched or created a track also swept a track it
\* did not touch
C2_Witness ==
    /\ lastFrame.outcome # << >>
    /\ \E k \in 1..Len(lastFrame.outcome) : lastFrame.outcome[k].kind # "dropped"
    /\ lastFrame.swept # {}

\* C3: the registry never holds more than MAX_PERSONS tracks after a frame; a
\* frame of more than MAX_PERSONS detections leaves exactly MAX_PERSONS tracks.
C3_AtMostMaxPersons ==
    /\ Cardinality(DOMAIN trackedPersons) <= TRACKING_MAX_PERSONS
    /\ Len(lastFrame.dets) > TRACKING_MAX_PERSONS =>
          Cardinality(DOMAIN trackedPersons) = TRACKING_MAX_PERSONS

\* C4: within one frame no track is matched by more than one detection, and
\* every detection has exactly one outcome (one track matched or created, or
\* none).
C4_OneToOne ==
    /\ Len(lastFrame.outcome) = Len(lastFrame.dets)
    /\ \A i, j \in MatchedIn(lastFrame) :
          i # j => lastFrame.outcome[i].id # lastFrame.outcome[j].id
    /\ \A i \in MatchedIn(lastFrame) :
          lastFrame.outcome[i].id \in DOMAIN trackedPersons =>
             trackedPersons[lastFrame.outcome[i].id].keypoints = lastFrame.dets[i]

\* C4 witness: two detections of one frame resemble the same track; the first
\* got it and the second did not
C4_Witness ==
    /\ Len(lastFrame.dets) = 2
    /\ lastFrame.dets[1] = lastFrame.dets[2]
    /\ lastFrame.outcome[1].kind = "matched"
    /\ lastFrame.outcome[2].kind = "created"

\* C5: while every frame holds the same pose with at least 4 confident
\* keypoints, each less than MAX_AGE after the one before, the registry holds
\* exactly one track after every frame, always under the same ID (the first, 0).
C5_StableSingleBody ==
    (steady.st = "ok" /\ Confident(steady.pose) >= OKS_MIN_KEYPOINTS) =>
        /\ DOMAIN trackedPersons = {0}
        /\ trackedPersons[0].keypoints = steady.pose
        /\ trackedPersons[0].lastSeen = steady.last

\* C5 witness: the feed has lasted for MAX_AGE or longer
C5_Witness ==
    /\ steady.st = "ok"
    /\ steady.last - steady.first >= TRACKING_MAX_AGE
    /\ DOMAIN trackedPersons = {0}

\* C7: in every state between frames each track's lastSeen is the timestamp of
\* the frame whose detection is the track's stored pose.
C7_UpdateIsAtomic ==
    /\ DOMAIN poseStamp = DOMAIN trackedPersons
    /\ \A id \in DOMAIN trackedPersons : trackedPersons[id].lastSeen = poseStamp[id]

\* C7 witness: a matched detection replaced a track's pose by a different one
\* in a frame later than the one that created the track
C7_Witness ==
    \E k \in MatchedIn(lastFrame) :
        LET id == lastFrame.outcome[k].id
        IN  /\ id \in DOMAIN trackedPersons
            /\ trackedPersons[id].keypoints = "J"
            /\ trackedPersons[id].lastSeen > 0

----------------------------------------------------------------------------
(* Claims about VisionOnDeviceScreen, checked under SpecScreen *)

\* the tracking effect runs on a skeleton that is null or has no keypoint
EmptyFrameStep ==
    /\ effectDue /\ effect.pc = "idle" /\ ~effectDue'
    /\ (skeletonData.isNull \/ Len(skeletonData.keypoints) = 0)

\* C6: the tracking effect run on an empty detection list creates no track,
\* updates no track, and leaves no track whose now - lastSeen >= MAX_AGE.
C6_EmptyFrameStillSweeps ==
    [][ EmptyFrameStep =>
          /\ nextPersonIdRef' = nextPersonIdRef
          /\ \A id \in DOMAIN trackedPersonsRef' :
                /\ id \in DOMAIN trackedPersonsRef
                /\ trackedPersonsRef'[id] = trackedPersonsRef[id]
                /\ now - trackedPersonsRef'[id].lastSeen < TRACKING_MAX_AGE ]_vars

\* C8: from the moment a tracking effect has computed its active-track set to
\* the end of its sweep, the registry and the ID counter are changed by that
\* effect's own steps only, in the order match, sweep (the form analysis that
\* follows the sweep leaves them alone); no other effect run starts and no
\* cleanup runs in between.
C8_NoInterleaving ==
    [][ /\ effect.pc # "idle" =>
              \/ effect'.pc # effect.pc
              \/ /\ trackedPersonsRef' = trackedPersonsRef
                 /\ nextPersonIdRef' = nextPersonIdRef
                 /\ effect' = effect
                 /\ mounted' = mounted
        /\ effect.pc = "active" => effect'.pc \in { "active", "resolved" }
        /\ effect.pc = "resolved" => effect'.pc \in { "resolved", "tracked" }
        /\ effect.pc = "tracked" =>
              /\ effect'.pc \in { "tracked", "idle" }
              /\ trackedPersonsRef' = trackedPersonsRef
              /\ nextPersonIdRef' = nextPersonIdRef ]_vars

\* C8 witness: a tracking effect is between its match and its sweep, the
\* registry holds a track, and the next frame's skeleton is already posted
C8_Witness ==
    /\ effect.pc = "resolved"
    /\ trackedPersonsRef # << >>
    /\ runOnJS # << >>

\* C9: a call of the frame processor that returns early leaves the filter
\* state and the tracker registry exactly as they were before the frame.
C9_EarlyReturnLeavesState ==
    [][ ( /\ frameCountRef' = frameCountRef + 1
          /\ lastWorklet'.outcome \in { "invalid", "rejected" } )
        => /\ lastKeypointsRef' = lastKeypointsRef
           /\ trackedPersonsRef' = trackedPersonsRef
           /\ nextPersonIdRef' = nextPersonIdRef ]_vars

----------------------------------------------------------------------------
(* Claims about smoothKeypoints, checked under SpecSmooth *)

ShortCall == smoothCall.n > 0 /\ Len(smoothCall.keypoints) < 51

BadSizeCall ==
    /\ smoothCall.n > 0
    /\ \/ smoothCall.screenWidth.t # "number" \/ smoothCall.screenHeight.t # "number"
       \/ smoothCall.screenWidth.v <= 0 \/ smoothCall.screenHeight.v <= 0

\* C10 (as stated): called with a buffer of fewer than 51 values, or with
\* screen dimensions that are not numbers or not positive, smoothKeypoints
\* returns the input unchanged.
C10_ReturnsInput ==
    (ShortCall \/ BadSizeCall) => smoothCall.result = smoothCall.keypoints

\* C10 (amended): called with a buffer of fewer than 51 values, smoothKeypoints
\* returns a buffer of 51 zeros; otherwise, called with screen dimensions that
\* are not numbers or not positive, it returns the values of the input; in both
\* cases the filter state is left as it was.
C10_ZerosOrInput ==
    /\ ShortCall => /\ smoothCall.result = [ k \in 1..51 |-> 0 ]
                    /\ smoothCall.after = smoothCall.before
    /\ (BadSizeCall /\ ~ShortCall) => /\ smoothCall.result = smoothCall.keypoints
                                      /\ smoothCall.after = smoothCall.before

\* C10 witness: a short, non-empty buffer is passed while the filter has state
C10_Witness ==
    /\ ShortCall
    /\ smoothCall.keypoints # << >>
    /\ smoothCall.before # << >>

\* the last call went past the guards of smoothKeypoints
FilteringCall ==
    /\ smoothCall.n > 0
    /\ ~ShortCall
    /\ ~BadSizeCall

\* slot i of the last call had state, a raw score above the detection threshold
\* and a raw position less than 1% of the screen width from the stored one, on
\* both axes
DeadZoneSample(i) ==
    /\ i \in DOMAIN smoothCall.before
    /\ smoothCall.keypoints[i * 3 + 3] > 30
    /\ Abs(smoothCall.keypoints[i * 3 + 2] * smoothCall.screenWidth.v
             - smoothCall.before[i].x) < 10 * smoothCall.screenWidth.v
    /\ Abs(smoothCall.keypoints[i * 3 + 1] * smoothCall.screenHeight.v
             - smoothCall.before[i].y) < 10 * smoothCall.screenWidth.v

\* C11: for a sample in the dead zone the filter leaves the slot's whole state
\* (x, y, score, dx, dy) as it was and outputs the stored value, converted back
\* to normalized coordinates; consecutive such samples give a constant output.
C11_DeadZoneKeepsState ==
    FilteringCall =>
        \A i \in 0..16 :
            DeadZoneSample(i) =>
                /\ smoothCall.after[i] = smoothCall.before[i]
                /\ smoothCall.result[i * 3 + 1]
                      = smoothCall.before[i].y \div smoothCall.screenHeight.v
                /\ smoothCall.result[i * 3 + 2]
                      = smoothCall.before[i].x \div smoothCall.screenWidth.v
                /\ smoothCall.result[i * 3 + 3] = smoothCall.before[i].score

\* C11 witness: the third call in a row on one body, the last two on samples in
\* the dead zone that differ from the stored position
C11_Witness ==
    /\ FilteringCall
    /\ smoothCall.n = 3
    /\ smoothCall.keypoints = RawNear
    /\ \A i \in 0..16 :
          /\ DeadZoneSample(i)
          /\ smoothCall.keypoints[i * 3 + 2] * smoothCall.screenWidth.v # smoothCall.before[i].x
          /\ smoothCall.result[i * 3 + 2] = RawA[i * 3 + 2]

\* slot i of the last call had no state, or a raw score that does not exceed
\* the detection threshold
UnfilteredSample(i) ==
    \/ i \notin DOMAIN smoothCall.before
    \/ smoothCall.keypoints[i * 3 + 3] <= DETECTION_THRESHOLD

\* C28: for a slot without stored state, or a raw score that does not exceed
\* 0.3, the filter outputs the raw sample as it is and writes the raw position,
\* the raw score and a zero velocity as the slot's state, whatever it held
C28_UnfilteredSampleResetsSlot ==
    FilteringCall =>
        \A i \in 0..16 :
            UnfilteredSample(i) =>
                /\ smoothCall.result[i * 3 + 1] = smoothCall.keypoints[i * 3 + 1]
                /\ smoothCall.result[i * 3 + 2] = smoothCall.keypoints[i * 3 + 2]
                /\ smoothCall.result[i * 3 + 3] = smoothCall.keypoints[i * 3 + 3]
                /\ smoothCall.after[i] =
                     [x |-> smoothCall.keypoints[i * 3 + 2] * smoothCall.screenWidth.v,
                      y |-> smoothCall.keypoints[i * 3 + 1] * smoothCall.screenHeight.v,
                      score |-> smoothCall.keypoints[i * 3 + 3],
                      dx |-> 0, dy |-> 0]

\* C28 witness: a body that was being filtered, its velocity not zero, fades
\* below the threshold and every slot is overwritten with the faint sample
C28_Witness ==
    /\ FilteringCall
    /\ smoothCall.keypoints = RawLow
    /\ \A i \in 0..16 :
          /\ i \in DOMAIN smoothCall.before
          /\ smoothCall.before[i].score > DETECTION_THRESHOLD
          /\ smoothCall.after[i].score = RawLow[i * 3 + 3]
    /\ \E i \in 0..16 : smoothCall.before[i].dx # 0

----------------------------------------------------------------------------
(* Claims about the filter's life, checked under SpecCamera *)

\* C12: once the camera was deactivated or flipped, or the screen unmounted, the
\* filter holds no state until the next sample is smoothed, and that sample,
\* the first one smoothed after the event, is returned equal to the raw sample.
C12_ClearedOnRestart ==
    /\ lastWorklet.cleared => lastKeypointsRef = << >>
    /\ (lastWorklet.outcome \in { "rejected", "emitted" } /\ lastWorklet.fresh) =>
          lastWorklet.smoothed = lastWorklet.raw

\* C12 witness: a body was tracked, the camera was flipped, and the first
\* sample smoothed since is a confident body
C12_Witness ==
    /\ isActive
    /\ nextPersonIdRef >= 1
    /\ cameraPosition = "back"
    /\ lastWorklet.outcome = "emitted"
    /\ lastWorklet.fresh
    /\ lastWorklet.raw = RawA
    /\ frameCountRef = 4

----------------------------------------------------------------------------
(* Claims about analyzeLiftForm, checked under SpecLift *)

LiftCall == call.fn = "analyzeLiftForm"

\* C13: analyzeLiftForm returns a score in [0, 100] for every input: it starts
\* at 100, only fixed penalties are taken from it, and it is floored at 0.
C13_ScoreInRange == LiftCall => call.result.formScore \in 0..100

\* C13 witness: a squat with four findings whose penalties brought the score
\* under 100
C13_Witness ==
    /\ LiftCall
    /\ call.liftType = StringLift("squat")
    /\ Len(call.pushed) = 4
    /\ call.result.formScore \in 1..70

\* the last n items of a list
LastItems(list, n) == SubSeq(list, Len(list) - n + 1, Len(list))

KnownLifts == { "squat", "bench", "deadlift" }

\* the lift type of the last call, lower-cased as the dispatch reads it, or
\* "" when there is none
CalledLift == IF call.liftType.t = "string" THEN toLowerCase(call.liftType.v) ELSE ""

\* C15: for a lift type outside squat, bench and deadlift (a missing one, an
\* array, an unrecognised string) the result is the neutral one, of score 0.
C15_UnknownLiftIsNeutral ==
    (LiftCall /\ CalledLift \notin KnownLifts) =>
        /\ call.result.formScore = 0
        /\ call.result.liftType = "unknown"
        /\ call.result.feedback = << "Select a lift type" >>

\* the bilateral landmark of a pair is unavailable in the last call: neither
\* side clears the detection threshold
Unavailable(pair) == \A i \in pair : call.keypoints[i * 3 + 3] <= 30

\* the landmark pairs each lift requires
RequiredPairs ==
    [ lift \in KnownLifts |->
        IF lift = "bench" THEN { {5, 6}, {7, 8}, {9, 10} }
        ELSE { {5, 6}, {11, 12}, {13, 14}, {15, 16} } ]

\* the generic positioning message of each lift
PositioningMessage ==
    [ lift \in KnownLifts |->
        CASE lift = "squat" -> "Position yourself to show full body"
          [] lift = "bench" -> "Position camera to show upper body"
          [] OTHER -> "Position to show full body from side" ]

\* C16: for each of squat, bench and deadlift, when a bilateral landmark the
\* lift requires is unavailable the result holds exactly one feedback item,
\* the positioning message, and the score is 100 - 30.
C16_MissingLandmarkOnlyPositions ==
    (LiftCall /\ CalledLift \in KnownLifts
        /\ \E pair \in RequiredPairs[CalledLift] : Unavailable(pair)) =>
        /\ call.result.feedback = << PositioningMessage[CalledLift] >>
        /\ call.result.formScore = 70

\* C16 witness: a bench press with both wrists unseen and every other
\* landmark seen
C16_Witness ==
    /\ LiftCall
    /\ CalledLift = "bench"
    /\ Unavailable({9, 10})
    /\ \A pair \in LandmarkPairs \ { {9, 10} } : ~Unavailable(pair)
    /\ call.result.formScore = 70
    /\ Len(call.result.feedback) = 1

----------------------------------------------------------------------------
(* Claims about the similarity, checked under SpecOKS *)

SimilarityCall == call.fn = "similarity"

\* C17: similarity(poseA, poseB) is exactly 0 whenever the two keypoint arrays
\* differ in length, whatever they hold.
C17_LengthMismatchIsZero ==
    (SimilarityCall /\ Len(call.person1Keypoints) # Len(call.person2Keypoints)) =>
        call.resultJS = 0

\* C17 witness: a pose of 10 confident keypoints against one of 17 that
\* has the same first 10
C17_Witness ==
    /\ SimilarityCall
    /\ call.person1Keypoints = OksPose(10, 10, 100, 0, 90)
    /\ call.person2Keypoints = OksPose(17, 17, 100, 0, 90)
    /\ call.resultJS = 0

\* the indices whose score is at or above the threshold in both poses of the
\* last call
MutuallyConfident ==
    { i \in 1..Min2(Len(call.person1Keypoints), Len(call.person2Keypoints)) :
        call.person1Keypoints[i].score >= 30 /\ call.person2Keypoints[i].score >= 30 }

\* C18: similarity is exactly 0 when fewer than 4 indices are at or above the
\* threshold 0.3 in both poses, and greater than 0 when exactly 4 are and
\* their positions are identical.
C18_FourKeypointFloor ==
    SimilarityCall =>
        /\ Cardinality(MutuallyConfident) < 4 => call.resultJS = 0
        /\ (/\ Len(call.person1Keypoints) = Len(call.person2Keypoints)
            /\ Cardinality(MutuallyConfident) = 4
            /\ \A i \in MutuallyConfident :
                  /\ call.person1Keypoints[i].x = call.person2Keypoints[i].x
                  /\ call.person1Keypoints[i].y = call.person2Keypoints[i].y)
           => call.resultJS > 0

\* C18 witness: two poses of 17 keypoints that differ, with exactly three
\* keypoints at the threshold in both
C18_Witness ==
    /\ SimilarityCall
    /\ Len(call.person1Keypoints) = 17
    /\ Len(call.person2Keypoints) = 17
    /\ Cardinality(MutuallyConfident) = 3
    /\ call.person1Keypoints[1].score = 30
    /\ call.person1Keypoints[1].x # call.person2Keypoints[1].x
    /\ call.resultJS = 0

\* C19: for finite inputs similarity is in [0, 1] and neither NaN nor
\* Infinity, also when all keypoints coincide, when the coordinates are
\* extremely large and when all scores are zero.
C19_BoundedNeverNaN == SimilarityCall => call.resultJS \in 0..10000

\* a pose of 17 keypoints whose scores are all 0
AllZero17(pose) == Len(pose) = 17 /\ \A i \in 1..17 : pose[i].score = 0

\* C20: for a pose of 17 keypoints with all scores 0, computeKeypointArea and
\* computeKeypointAreaJS return the fallback 1, and the similarity between
\* that pose and any pose is 0.
C20_ZeroPoseFallback ==
    SimilarityCall =>
        /\ AllZero17(call.person2Keypoints) =>
              /\ call.areaJS = [u |-> 1, e |-> 0, inf |-> FALSE]
              /\ call.area = [u |-> 1, e |-> 0, inf |-> FALSE]
        /\ (AllZero17(call.person1Keypoints) \/ AllZero17(call.person2Keypoints)) =>
              call.resultJS = 0 /\ call.result = 0

\* C29: on two poses of the same length the worklet pair (computeKeypointArea,
\* computeOKSSimilarity) and the JS pair (computeKeypointAreaJS,
\* computeOKSSimilarityJS) return the same similarity, keypoints with a score
\* of exactly 0.3, poses without a confident keypoint and flat bounding boxes
\* included.
C29_SameSimilarity ==
    (SimilarityCall /\ Len(call.person1Keypoints) = Len(call.person2Keypoints)) =>
        call.result = call.resultJS

----------------------------------------------------------------------------
(* Further claims about the TrackingManager, checked under Spec *)

\* the tracks claimed by the detections before detection k of a frame
ClaimedBefore(frame, k) == { frame.outcome[j].id : j \in { i \in MatchedIn(frame) : i < k } }

\* the tracks detection k of the coming frame may take: active when the frame
\* starts, not claimed by an earlier detection, similarity above MIN_SIMILARITY
Candidates(k) ==
    { id \in ActiveTracks(trackedPersons, lastFrame'.timestamp) \ ClaimedBefore(lastFrame', k) :
        SimTable[<<lastFrame'.dets[k], trackedPersons[id].keypoints>>] > 1500 }

\* C21: the detections of a frame are handled in input order; each one takes
\* the unclaimed active track of highest similarity among those above
\* MIN_SIMILARITY (0.15), takes none when no similarity exceeds 0.15, and a
\* track two detections would select goes to the earlier one.
C21_GreedyBestMatch ==
    [][ \A k \in 1..Len(lastFrame'.dets) :
          IF Candidates(k) = {}
          THEN lastFrame'.outcome[k].kind # "matched"
          ELSE /\ lastFrame'.outcome[k].kind = "matched"
               /\ lastFrame'.outcome[k].id \in Candidates(k)
               /\ \A id \in Candidates(k) :
                     SimTable[<<lastFrame'.dets[k],
                                trackedPersons[lastFrame'.outcome[k].id].keypoints>>]
                       >= SimTable[<<lastFrame'.dets[k], trackedPersons[id].keypoints>>] ]_vars

\* C21 witness: the detection A took track 1, which held A, though track 0,
\* which holds the nearby J, comes first and was above the threshold too
C21_Witness ==
    /\ lastFrame.dets = << "A" >>
    /\ lastFrame.outcome = << [kind |-> "matched", id |-> 1] >>
    /\ 0 \in DOMAIN trackedPersons
    /\ trackedPersons[0].keypoints = "J"

\* C22: a track that is stale when a frame starts (now - lastSeen >= MAX_AGE)
\* is matched by none of the frame's detections, not even one identical to
\* its pose, and is gone when the frame ends; such a detection that gets a
\* track gets a new ID, and a removed track never comes back.
C22_StaleNeverMatched ==
    [][ /\ \A id \in DOMAIN trackedPersons :
              lastFrame'.timestamp - trackedPersons[id].lastSeen >= TRACKING_MAX_AGE =>
                  /\ id \notin DOMAIN trackedPersons'
                  /\ \A k \in MatchedIn(lastFrame') : lastFrame'.outcome[k].id # id
                  /\ \A k \in CreatedIn(lastFrame') : lastFrame'.outcome[k].id > id
        /\ \A id \in assigned \ DOMAIN trackedPersons : id \notin DOMAIN trackedPersons' ]_vars

\* C22 witness: track 0 held pose A and was stale when a frame with the
\* detection A arrived; the frame removed it and gave the detection the ID 1
C22_Witness ==
    /\ lastFrame.dets = << "A" >>
    /\ lastFrame.swept = {0}
    /\ lastFrame.gone[0] = "A"
    /\ lastFrame.outcome = << [kind |-> "created", id |-> 1] >>
    /\ DOMAIN trackedPersons = {1}

\* C23: the sweep removes stale tracks only: a track with now - lastSeen <
\* MAX_AGE when a frame arrives at time now is in the registry under the same
\* ID after the frame, so a body seen at gaps shorter than MAX_AGE, empty
\* frames in between, keeps its track.
C23_LiveTrackSurvives ==
    [][ \A id \in DOMAIN trackedPersons :
          (/\ lastFrame'.timestamp >= 0
           /\ lastFrame'.timestamp - trackedPersons[id].lastSeen < TRACKING_MAX_AGE) =>
              /\ id \in DOMAIN trackedPersons'
              /\ trackedPersons'[id].id = id
              /\ trackedPersons'[id].lastSeen >= trackedPersons[id].lastSeen ]_vars

\* C23 witness: an empty frame came half of MAX_AGE after track 0 was last
\* seen, and the track is still there
C23_Witness ==
    /\ lastFrame.dets = << >>
    /\ lastFrame.timestamp = TimeStep
    /\ DOMAIN trackedPersons = {0}
    /\ trackedPersons[0].lastSeen = 0

\* the IDs a frame matched or created
TouchedIn(frame) == { frame.outcome[k].id : k \in MatchedIn(frame) \cup CreatedIn(frame) }

\* C24: the ID counter starts at 0 and a frame raises it by exactly 1 for each
\* track it creates, the new tracks taking the counter's values in turn; a
\* match, a detection dropped at capacity, an empty frame and the sweep leave
\* it as it was, and a dropped detection changes no track.
C24_CounterCountsCreations ==
    /\ (nextPersonId = 0 /\ trackedPersons = << >>)
    /\ [][ lastFrame'.timestamp >= 0 =>
              /\ nextPersonId' = nextPersonId + Cardinality(CreatedIn(lastFrame'))
              /\ { lastFrame'.outcome[k].id : k \in CreatedIn(lastFrame') }
                    = { id \in 0..(nextPersonId' - 1) : id >= nextPersonId }
              /\ \A id \in DOMAIN trackedPersons' \ TouchedIn(lastFrame') :
                    id \in DOMAIN trackedPersons /\ trackedPersons'[id] = trackedPersons[id] ]_vars

\* C24 witness: a full registry, and a frame whose detection found no track
\* and was dropped
C24_Witness ==
    /\ nextPersonId >= TRACKING_MAX_PERSONS
    /\ CreatedIn(lastFrame) = {}
    /\ \E k \in 1..Len(lastFrame.outcome) : lastFrame.outcome[k].kind = "dropped"
    /\ Cardinality(DOMAIN trackedPersons) >= TRACKING_MAX_PERSONS

\* TRACKING_MAX_PERSONS less the tracks that are active when the frame starts
FreeCapacity(tp, currentTime) ==
    TRACKING_MAX_PERSONS - Cardinality(ActiveTracks(tp, currentTime))

\* C27: the candidates of a frame are the tracks active when it starts: a
\* detection is matched only to one of them, never to a track created earlier
\* in the same frame; so the detections of a frame that are all the same pose,
\* the first of them unmatched and their number within the free capacity,
\* each create a track of their own
C27_CandidatesFixedAtFrameStart ==
    [][ lastFrame'.timestamp >= 0 =>
          LET frame == lastFrame'
              n == Len(frame.dets)
          IN  /\ \A k \in MatchedIn(frame) :
                    /\ frame.outcome[k].id \in
                          ActiveTracks(trackedPersons, frame.timestamp)
                    /\ \A j \in CreatedIn(frame) : frame.outcome[j].id # frame.outcome[k].id
              /\ ( /\ n >= 1
                   /\ \A j \in 1..n : frame.dets[j] = frame.dets[1]
                   /\ Candidates(1) = {}
                   /\ n <= FreeCapacity(trackedPersons, frame.timestamp) )
                 => /\ CreatedIn(frame) = 1..n
                    /\ Cardinality({ frame.outcome[j].id : j \in 1..n }) = n
                    /\ \A j \in 1..n :
                          /\ frame.outcome[j].id \in DOMAIN trackedPersons'
                          /\ trackedPersons'[frame.outcome[j].id].keypoints = frame.dets[j]
      ]_vars

\* a full house of one pose arrives in one frame and every copy gets its track
C27_Witness ==
    /\ Len(lastFrame.dets) = TRACKING_MAX_PERSONS
    /\ CreatedIn(lastFrame) = 1..TRACKING_MAX_PERSONS
    /\ Cardinality(DOMAIN trackedPersons) = TRACKING_MAX_PERSONS
    /\ \A id \in DOMAIN trackedPersons : trackedPersons[id].keypoints = lastFrame.dets[1]

----------------------------------------------------------------------------
(* Claims about the pipeline of the screen, checked under SpecCamera *)

\* a skeleton has left the frame processor's smoothing and its form analysis
\* has not run yet: it is posted, or set and waiting for its effects
InFlight ==
    \/ runOnJS # << >>
    \/ ~skeletonData.isNull /\ (effectDue \/ effect.pc # "idle")

\* the step is a camera frame that reaches smoothKeypoints
SmoothesFrame ==
    /\ frameCountRef' = frameCountRef + 1
    /\ lastWorklet'.outcome \in {"emitted", "rejected"}

\* the step is the form analysis of the skeleton
AnalysesForm == effect.pc = "tracked" /\ effect'.pc = "idle"

\* C25: the stages run in the order detection, smoothing, tracking, form
\* analysis: the form analysis of a skeleton follows the tracker update of the
\* same skeleton, and no later frame is detected or smoothed while a smoothed
\* skeleton is still waiting for its tracker update or its form analysis
C25_StrictPipeline ==
    [][ /\ AnalysesForm =>
              effect.full17Keypoints = Full17Keypoints(skeletonData.keypoints)
        /\ InFlight => ~SmoothesFrame ]_vars

\* the step is a camera frame that passed the frame and model guards
CountsFrame == frameCountRef' = frameCountRef + 1

\* C26: of the frames that pass the guards, exactly those that bring the frame
\* counter to a multiple of FRAME_SKIP_INTERVAL go on to inference; a skipped
\* frame changes the counter and nothing else; deactivating the camera puts
\* the counter back to 0
C26_FrameDecimation ==
    [][ /\ CountsFrame =>
              /\ lastWorklet'.outcome # "skipped"
                    <=> frameCountRef' % FRAME_SKIP_INTERVAL = 0
              /\ lastWorklet'.outcome = "skipped" =>
                    UNCHANGED <<lastKeypointsRef, runOnJS, skeletonData, effectDue, effect,
                                trackedPersonsRef, nextPersonIdRef, feedback, isActive,
                                cameraPosition, mounted>>
        /\ (mounted' /\ isActive /\ ~isActive') => frameCountRef' = 0 ]_vars

\* the third frame is skipped with the filter holding the body of the second
C26_Witness ==
    /\ frameCountRef = 3
    /\ lastWorklet.outcome = "skipped"
    /\ lastKeypointsRef # << >>

----------------------------------------------------------------------------
(* Claims about the login rate limiter, checked under SpecLimit *)

\* the step is a call of checkRateLimit for the identifier that does something
ChecksLimit(identifier) ==
    /\ dateNow' = dateNow
    /\ lastLimitCall'.fn = "checkRateLimit"
    /\ lastLimitCall'.identifier = identifier
    /\ <<rateLimitMap, lastLimitCall>>' # <<rateLimitMap, lastLimitCall>>

\* the identifier has used up the attempts of its window and less than the
\* lockout duration has passed since the last attempt that was counted
LockedOut(identifier) ==
    /\ identifier \in DOMAIN rateLimitMap
    /\ rateLimitMap[identifier].count >= RATE_LIMIT_CONFIG.maxAttempts
    /\ dateNow < rateLimitMap[identifier].lastAttempt + RATE_LIMIT_CONFIG.lockoutDurationMs

\* C30: once an identifier has made maxAttempts allowed calls in one window,
\* every further checkRateLimit call for it is denied until the lockout
\* duration has passed since its last counted attempt, unless resetRateLimit
\* is called for it; a denied call leaves the limiter's entry as it was
C30_LockoutLastsThirtyMinutes ==
    [][ \A identifier \in Identifiers :
          (LockedOut(identifier) /\ ChecksLimit(identifier)) =>
              /\ ~lastLimitCall'.allowed
              /\ rateLimitMap' = rateLimitMap ]_vars
====
